---- MODULE Spec2Model ----
(***************************************************************************)
(* CyberSlugMesa: the shared odor field (model.py), the per-tick driver    *)
(* (CyberSlugModel.step, RandomActivation.step), the construction of the   *)
(* model, and the forager of agents.py: its learning circuit, habituation, *)
(* biting, satiation, steering and proboscis.                              *)
(*                                                                         *)
(* Numbers.  The program computes in floating point; the model computes in *)
(* fixed point with integers.  A concentration c is held as the integer    *)
(* c * FONE; a division truncates.  FONE is a multiple of 320 and of 200,  *)
(* so one diffusion step of a deposit (factors 19/160 and 19/320) and the  *)
(* forager's deposit size/20 (size in tenths) are exact.                   *)
(***************************************************************************)
EXTENDS Integers, Sequences, FiniteSets, TLC

(***************************************************************************)
(* State: the field.                                                       *)
(***************************************************************************)
VARIABLES
    patches,      \* model.patches[i][CellOf(px, py)], times FONE
    fieldOps,     \* number of field calls made so far (SpecField's budget)
    lastOp        \* the last call made on the field: <<name, arguments...>>

fieldVars == <<patches, fieldOps, lastOp>>

(***************************************************************************)
(* State of one run of the model.                                          *)
(***************************************************************************)
VARIABLES
    pc,          \* "idle": between model.step calls; "agents": inside schedule.step
    queue,       \* the shuffled agents that schedule.step has still to step
    steps,       \* model.steps
    ticks,       \* model.ticks
    immobilize,  \* model.immobilize
    pos,         \* agent.pos, thousandths of a world unit
    angle,       \* agent.angle, whole degrees
    size,        \* slug.size, tenths
    sensed,      \* per slug: the raw odor vector read at each sensor this tick
    audit        \* what happened in the current model.step (history, see below)

tickVars == <<pc, queue, steps, ticks, immobilize, pos, angle, size, sensed, audit>>

(***************************************************************************)
(* State of one forager, and the model attributes it reads.                *)
(***************************************************************************)
VARIABLES
    slug,        \* the CyberslugAgent fields that step reads and writes
    hist,        \* the calls made on the forager so far (history, see below)
    config       \* the CyberSlugModel attributes the forager reads

slugVars == <<slug, hist, config>>

(***************************************************************************)
(* State around the model: what its callers hold, and models with more     *)
(* than one forager.                                                       *)
(***************************************************************************)
VARIABLES
    held,        \* the arrays that get_odor_at_position and get_sensors returned
    runs,        \* two models that one caller constructs and steps
    colony       \* the foragers of a model with several slugs

otherVars == <<held, runs, colony>>

(***************************************************************************)
(* Bounds of the model.                                                    *)
(***************************************************************************)
PatchDim == 4        \* patch_width = patch_height (200 in the program)
MaxFieldOps == 4     \* calls made on the bare field in SpecField

(***************************************************************************)
(* Program constants.                                                      *)
(***************************************************************************)
num_odor_types == 5  \* betaine, hermi, flab, drug, pleur
FONE == 320 * 1000   \* the concentration 1.0 in fixed point

patch_width == PatchDim
patch_height == PatchDim

OdorTypes == 0 .. (num_odor_types - 1)
\* the patch (px, py) is held as the index px * patch_height + py
Cells == 0 .. (patch_width * patch_height - 1)
CellOf(px, py) == px * patch_height + py
CellX(c) == c \div patch_height
CellY(c) == c % patch_height

\* np.zeros((num_odor_types, patch_width, patch_height))
ZeroPatches == [i \in OdorTypes |-> [c \in Cells |-> 0]]

RECURSIVE SumUpTo(_, _)
SumUpTo(f, n) == IF n < 0 THEN 0 ELSE f[n] + SumUpTo(f, n - 1)

\* np.sum(model.patches[i])
Mass(p, i) == SumUpTo(p[i], patch_width * patch_height - 1)

(***************************************************************************)
(* set_patch_odor, on a patch cell: patches[:, px, py] += odorlist         *)
(***************************************************************************)
\* patches[:, px, py] = odorlist: the deposit replaces the cell's content
AddOdorOverwrites(p, cell, odorlist) ==
    [i \in OdorTypes |-> [p[i] EXCEPT ![cell] = odorlist[i + 1]]]

AddOdor(p, cell, odorlist) ==
    [i \in OdorTypes |-> [p[i] EXCEPT ![cell] = @ + odorlist[i + 1]]]

(***************************************************************************)
(* update_odor_patches, the diffusion and evaporation loop.                *)
(* diffusion_rates = [1.0, 1.0, 1.0, 1.0, 0.5], in sixteenths of the       *)
(* neighbour sum's weight (amount / 8 = Rate16 / 16); evap = 0.95 = 19/20. *)
(***************************************************************************)
Rate16(i) == IF i = 4 THEN 1 ELSE 2

\* np.pad(field, 1, mode='wrap') and the eight shifted slices
NeighborOffsets == ({-1, 0, 1} \X {-1, 0, 1}) \ {<<0, 0>>}

WrapCell(cell, dx, dy) ==
    CellOf((CellX(cell) + dx) % patch_width, (CellY(cell) + dy) % patch_height)

\* the four edge neighbours only
neighbors_sum_no_diagonals(field, cell) ==
    field[WrapCell(cell, -1, 0)] + field[WrapCell(cell, 0, -1)]
    + field[WrapCell(cell, 0, 1)] + field[WrapCell(cell, 1, 0)]

\* padded[:-2, :-2] + padded[:-2, 1:-1] + ... + padded[2:, 2:]
neighbors_sum(field, cell) ==
    field[WrapCell(cell, -1, -1)] + field[WrapCell(cell, -1, 0)]
    + field[WrapCell(cell, -1, 1)] + field[WrapCell(cell, 0, -1)]
    + field[WrapCell(cell, 0, 1)] + field[WrapCell(cell, 1, -1)]
    + field[WrapCell(cell, 1, 0)] + field[WrapCell(cell, 1, 1)]

\* evap * ((1.0 - amount) * field + (amount / 8.0) * neighbors_sum)
\*   = 19/20 * ((16 - 8 r) * field + r * neighbors_sum) / 16,  r = Rate16
\* (0.0 - amount) in place of (1.0 - amount)
DiffuseCellSubtracts(field, i, cell) ==
    (19 * ((0 - 8 * Rate16(i)) * field[cell]
           + Rate16(i) * neighbors_sum(field, cell))) \div 320

\* evap = 1.0
DiffuseCellNoEvaporation(field, i, cell) ==
    (20 * ((16 - 8 * Rate16(i)) * field[cell]
           + Rate16(i) * neighbors_sum(field, cell))) \div 320

DiffuseCell(field, i, cell) ==
    (19 * ((16 - 8 * Rate16(i)) * field[cell]
           + Rate16(i) * neighbors_sum(field, cell))) \div 320

Diffuse(p) ==
    [i \in OdorTypes |-> [c \in Cells |-> DiffuseCell(p[i], i, c)]]

\* self.patches after update_odor_patches: every slug's deposit first (each
\* deposit is <<cell, odorlist>>), then the diffusion-evaporation loop
RECURSIVE DepositAll(_, _)
DepositAll(p, deps) ==
    IF deps = <<>> THEN p
    ELSE DepositAll(AddOdor(p, Head(deps)[1], Head(deps)[2]), Tail(deps))

\* the diffusion first, the slugs' deposits after it
update_odor_patches_deposit_last(p, slugDeposits) ==
    DepositAll(Diffuse(p), slugDeposits)

update_odor_patches(p, slugDeposits) == Diffuse(DepositAll(p, slugDeposits))

(***************************************************************************)
(* World geometry.  Positions are in thousandths of a world unit;          *)
(* width = height = 3 * patch_width as in the default 600 / 200.           *)
(***************************************************************************)
width == 3 * patch_width
height == 3 * patch_height
MILLI == 10 * 100

Max(a, b) == IF a > b THEN a ELSE b
Min(a, b) == IF a < b THEN a ELSE b

\* Python's int(): truncation toward zero
TruncDiv(a, b) == IF a >= 0 THEN a \div b ELSE 0 - ((0 - a) \div b)

\* the two max(0, min(...)) lines left out
convert_to_patch_coords_unclamped(x, y) ==
    CellOf(TruncDiv((2 * x - width * MILLI) * patch_width
                      + patch_width * width * MILLI, 2 * width * MILLI),
           TruncDiv((2 * y - height * MILLI) * patch_height
                      + patch_height * height * MILLI, 2 * height * MILLI))

\* int((x - width / 2) * scale + patch_width / 2), scale = patch_width / width,
\* then max(0, min(patch_width - 1, px))
convert_to_patch_coords(x, y) ==
    LET px == TruncDiv((2 * x - width * MILLI) * patch_width
                         + patch_width * width * MILLI, 2 * width * MILLI)
        py == TruncDiv((2 * y - height * MILLI) * patch_height
                         + patch_height * height * MILLI, 2 * height * MILLI)
    IN CellOf(Max(0, Min(patch_width - 1, px)), Max(0, Min(patch_height - 1, py)))

\* patches[:, px, py] += odorlist: numpy spreads a vector of one value over
\* the channels and raises ValueError for any other length that is not the
\* channel count
BroadcastRaises(odorlist) == Len(odorlist) \notin {1, num_odor_types}

Broadcast(odorlist) ==
    IF Len(odorlist) = 1 THEN [i \in 1 .. num_odor_types |-> odorlist[1]]
    ELSE odorlist

\* set_patch_odor(x, y, odorlist); a call that raises leaves the field alone
set_patch_odor(p, x, y, odorlist) ==
    IF BroadcastRaises(odorlist) THEN p
    ELSE AddOdor(p, convert_to_patch_coords(x, y), Broadcast(odorlist))

\* get_odor_at_position: a copy of patches[:, px, py]
get_odor_at_position(p, x, y) ==
    LET c == convert_to_patch_coords(x, y) IN [i \in OdorTypes |-> p[i][c]]

\* 1000 * cos(d degrees), d = 0 .. 90
CosTable == <<
    1000, 1000, 999, 999, 998, 996, 995, 993, 990, 988, 985, 982, 978,
    974, 970, 966, 961, 956, 951, 946, 940, 934, 927, 921, 914, 906,
    899, 891, 883, 875, 866, 857, 848, 839, 829, 819, 809, 799, 788,
    777, 766, 755, 743, 731, 719, 707, 695, 682, 669, 656, 643, 629,
    616, 602, 588, 574, 559, 545, 530, 515, 500, 485, 469, 454, 438,
    423, 407, 391, 375, 358, 342, 326, 309, 292, 276, 259, 242, 225,
    208, 191, 174, 156, 139, 122, 105, 87, 70, 52, 35, 17, 0
>>

\* 1000 * math.cos(math.radians(d)) and 1000 * math.sin(math.radians(d))
Cos1000(d) ==
    LET a == d % 360
    IN IF a <= 90 THEN CosTable[a + 1]
       ELSE IF a <= 180 THEN 0 - CosTable[180 - a + 1]
       ELSE IF a <= 270 THEN 0 - CosTable[a - 180 + 1]
       ELSE CosTable[360 - a + 1]

Sin1000(d) == Cos1000(d + 270)

(***************************************************************************)
(* Arrays in the hands of a caller.  patches[:, px, py] is a numpy view:   *)
(* it reads and writes the cell of the field it was sliced from; .copy()   *)
(* gives an array with data of its own.                                    *)
(***************************************************************************)
sensor_distance == 4     \* self.sensor_distance = 4, in patches

\* self.patches[:, px, py]
Slice(cell) == [base |-> "patches", cell |-> cell, data |-> [i \in OdorTypes |-> 0]]

\* the values of an array, read while the field is p
ArrayRead(p, arr) ==
    IF arr.base = "own" THEN arr.data ELSE [i \in OdorTypes |-> p[i][arr.cell]]

\* arr.copy()
ArrayCopy(p, arr) == [base |-> "own", cell |-> arr.cell, data |-> ArrayRead(p, arr)]

\* arr[i] = v: the field after the assignment, and the array after it
ArrayWriteField(p, arr, i, v) ==
    IF arr.base = "own" THEN p ELSE [p EXCEPT ![i][arr.cell] = v]

ArrayWriteData(arr, i, v) ==
    IF arr.base = "own" THEN [arr EXCEPT !.data[i] = v] ELSE arr

\* get_odor_at_position returning the slice itself, the .copy() left out
get_odor_at_position_view(p, x, y) == Slice(convert_to_patch_coords(x, y))

\* get_odor_at_position(x, y) as the array the caller receives
get_odor_at_position_array(p, x, y) ==
    ArrayCopy(p, Slice(convert_to_patch_coords(x, y)))

\* get_sensors(x, y, heading): the slices of the cells sensor_distance
\* patches away at 45 degrees to either side, clamped to the grid
get_sensors(x, y, heading) ==
    LET c == convert_to_patch_coords(x, y)
        px == c \div patch_height
        py == c % patch_height
        at(d) == CellOf(Max(0, Min(patch_width - 1,
                     TruncDiv(1000 * px + sensor_distance * Cos1000(d), 1000))),
                        Max(0, Min(patch_height - 1,
                     TruncDiv(1000 * py + sensor_distance * Sin1000(d), 1000))))
    IN <<Slice(at(heading + 315)), Slice(at(heading + 45))>>

(***************************************************************************)
(* The agents.  _create_agents schedules and places the slugs first, then  *)
(* the hermi, flab and fauxflab prey; an agent is its place in that order. *)
(* The configuration modelled: one slug, one hermi, one fauxflab prey,     *)
(* clustering off.                                                         *)
(***************************************************************************)
AgentKinds == <<"slug", "hermi", "fauxflab">>

Agents == 1 .. Len(AgentKinds)
Slugs == {a \in Agents : AgentKinds[a] = "slug"}
Prey == Agents \ Slugs

\* the odor argument of PreyAgent(...) in _create_agents
PreyOdor(kind) ==
    CASE kind = "hermi" -> <<FONE \div 2, FONE \div 2, 0, 0, 0>>
      [] kind = "flab" -> <<FONE \div 2, 0, FONE \div 2, 0, 0>>
      [] kind = "fauxflab" -> <<0, 0, FONE \div 2, 0, 0>>

max_slug_size == 200     \* self.max_slug_size = 20, in tenths

\* odor_amount = slug.size / self.max_slug_size; [odor_amount, 0, 0, 0, odor_amount]
SlugOdor(sz) ==
    LET odor_amount == (sz * FONE) \div max_slug_size
    IN <<odor_amount, 0, 0, 0, odor_amount>>

\* the six odor sensors of update_sensors: name, angle_offset, 100 * distance_mult
SensorLayout == <<
    <<"OL", 40, 40>>, <<"OR", -40, 40>>, <<"UL", 100, 30>>,
    <<"UR", -100, 30>>, <<"BL", 150, 35>>, <<"BR", -150, 35>> >>

SensorIds == 1 .. Len(SensorLayout)

\* sx = x + (distance_mult * size) * cos(radians(heading + angle_offset)), sy alike
SensorPoint(x, y, heading, sz, k) ==
    LET ang == heading + SensorLayout[k][2]
        reach == SensorLayout[k][3] * sz    \* thousandths of a world unit
    IN <<x + TruncDiv(reach * Cos1000(ang), 1000),
         y + TruncDiv(reach * Sin1000(ang), 1000)>>

(***************************************************************************)
(* Bounds and input sets of the tick model.                                *)
(***************************************************************************)
MaxTicks == 2
\* self.random.randrange(width), randrange(height) at placement and respawn
SlugStart == {<<4 * MILLI, 4 * MILLI>>}
PreyStart == {<<6 * MILLI, 5 * MILLI>>, <<7 * MILLI, 7 * MILLI>>}
RespawnPlaces == {<<7 * MILLI, 7 * MILLI>>, <<1 * MILLI, 10 * MILLI>>}
\* 5 + self.random.uniform(0, 10), tenths
StartSizes == {100}
\* self.random.uniform(0, 360) and the per-step uniform(-1, 1) of a prey
PreyAngles == {90}
PreyJitter == {-1, 1}
\* the turn angle update_state returns lies in (-1, 1) degrees
TurnSet == {0, 1}
\* actual_speed = 0.10 + sns_pain_caud / 20 - satiation / 20, thousandths
SlugSpeeds == {83, 100}

(***************************************************************************)
(* The audit of the current model.step call.  It records what the code did *)
(* and is read by no action's guard or update of the program state.        *)
(*   fieldUpdates  update_odor_patches calls in this model.step            *)
(*   stepCount     agent.step calls per agent in this model.step           *)
(*   snapshot      patches as update_odor_patches left them                *)
(*   stepDep       what agents have added to each cell during their steps  *)
(*   seenDep       per slug: stepDep at the moment the slug sampled        *)
(*   sampled       per slug: the cell each sensor sampled                  *)
(*   depositWhen   per agent: when its deposit of this tick was made       *)
(*   depositCell   per slug: the cell of its deposit of this tick          *)
(*   depositOdor   per slug: the betaine amount of that deposit            *)
(*   ownSeen       per slug: whether one of its readings of this tick      *)
(*                 holds part of its own deposit of this tick (odors 0     *)
(*                 and 4, the two a slug deposits)                         *)
(*   captured      per slug: the prey its check_encounters respawned in    *)
(*                 this tick, 0 when none                                  *)
(***************************************************************************)
AuditStart ==
    [fieldUpdates |-> 0,
     stepCount |-> [a \in Agents |-> 0],
     snapshot |-> ZeroPatches,
     stepDep |-> ZeroPatches,
     seenDep |-> [a \in Slugs |-> [k \in SensorIds |-> [i \in OdorTypes |-> 0]]],
     sampled |-> [a \in Slugs |-> [k \in SensorIds |-> 0]],
     depositWhen |-> [a \in Agents |-> "none"],
     depositCell |-> [a \in Slugs |-> 0],
     depositOdor |-> [a \in Slugs |-> 0],
     ownSeen |-> [a \in Slugs |-> FALSE],
     captured |-> [a \in Slugs |-> 0]]

\* whether a deposit of odor i in cell from is part of cell to after one
\* diffusion: a cell keeps part of its own content only while 1.0 - amount > 0
ReachedByDiffusion(i, from, to) ==
    \/ to = from /\ 16 - 8 * Rate16(i) > 0
    \/ \E d \in NeighborOffsets : WrapCell(from, d[1], d[2]) = to

(***************************************************************************)
(* RandomActivation.step: list(self.agents), shuffled                      *)
(***************************************************************************)
IsPermutation(q, S) ==
    /\ Len(q) = Cardinality(S)
    /\ \A a \in S : \E k \in 1 .. Len(q) : q[k] = a

\* a shuffle that may repeat an agent and drop another
ShufflesWithRepeats(S) == [1 .. Cardinality(S) -> S]

Shuffles(S) == {q \in [1 .. Cardinality(S) -> S] : IsPermutation(q, S)}

\* ContinuousSpace(width, height, torus=True).move_agent: torus_adj
torus_adj(p) == <<p[1] % (width * MILLI), p[2] % (height * MILLI)>>

\* the move made whatever model.immobilize says
MoveAlways(p, target) == torus_adj(target)

\* if not self.model.immobilize: self.model.space.move_agent(self, (new_x, new_y))
MoveUnlessImmobilized(p, target) == IF immobilize THEN p ELSE torus_adj(target)

\* the captured prey taken out of the space (no position inside it is left)
respawn_removes(p, k, place) == [p EXCEPT ![k] = <<0 - 1, 0 - 1>>]

\* PreyAgent.respawn (clustering off): the prey k is moved to a drawn place,
\* whatever model.immobilize says
respawn(p, k, place) == [p EXCEPT ![k] = torus_adj(place)]

(***************************************************************************)
(* The capture and bite cone: distance < reach and angle_diff < 45, where  *)
(* angle_diff is the angle between the heading and the direction to the    *)
(* neighbour (atan2(0, 0) = 0 when both stand on the same point).          *)
(***************************************************************************)
InCone(x, y, heading, nx, ny, reach) ==
    LET dx == nx - x
        dy == ny - y
        d2 == dx * dx + dy * dy
        dot == TruncDiv(dx * Cos1000(heading) + dy * Sin1000(heading), 1000)
        h == heading % 360
    IN /\ d2 < reach * reach
       /\ IF d2 = 0 THEN h < 45 \/ h > 315
          ELSE dot > 0 /\ 2 * dot * dot > d2

\* check_encounters: the first prey, in the order the space returns them,
\* with distance < 0.4 * size inside the cone; 0 when there is none
RECURSIVE FirstCaught(_, _)
FirstCaught(a, k) ==
    IF k > Len(AgentKinds) THEN 0
    ELSE IF /\ k \in Prey
            /\ InCone(pos[a][1], pos[a][2], angle[a], pos[k][1], pos[k][2],
                      40 * size[a])
         THEN k
         ELSE FirstCaught(a, k + 1)

check_encounters(a) == FirstCaught(a, 1)

\* update_state, lines 508-519: size = min(size + 0.1, max_slug_size) on a
\* hermi or flab encounter (a fauxflab encounter leaves the size alone)
GrownSize(sz, encounter) ==
    IF encounter \in {"hermi", "flab"} THEN Min(sz + 1, max_slug_size) ELSE sz

(***************************************************************************)
(* CyberSlugModel.step, first part: update_odor_patches() and the shuffle  *)
(* of schedule.step().  (Mesa counts model.steps up when step is entered.) *)
(***************************************************************************)
\* odor-null mode: self.set_patch_odor(x, y, [0, 0, 0, 0, 0.01])
NullOdor == <<0, 0, 0, 0, FONE \div 100>>

\* the deposit proportional to size whatever model.odor_null says
SlugDepositIgnoringOdorNull(sz) == SlugOdor(sz)

\* what update_odor_patches deposits for a slug of size sz
SlugDeposit(sz) == IF config.odor_null THEN NullOdor ELSE SlugOdor(sz)

\* for slug in self.cyberslugs: self.set_patch_odor(x, y, ...)
RECURSIVE SlugDeposits(_)
SlugDeposits(k) ==
    IF k > Len(AgentKinds) THEN <<>>
    ELSE IF k \in Slugs
         THEN <<<<convert_to_patch_coords(pos[k][1], pos[k][2]), SlugDeposit(size[k])>>>>
              \o SlugDeposits(k + 1)
         ELSE SlugDeposits(k + 1)

StepBegin ==
    /\ pc = "idle"
    /\ steps < MaxTicks
    /\ steps' = steps + 1
    /\ patches' = update_odor_patches(patches, SlugDeposits(1))
    /\ \E q \in Shuffles(Agents) : queue' = q
    /\ pc' = "agents"
    /\ audit' = [AuditStart EXCEPT
                   !.fieldUpdates = 1,
                   !.snapshot = patches',
                   !.depositWhen = [a \in Agents |->
                        IF a \in Slugs THEN "before_diffusion" ELSE "none"],
                   !.depositCell = [a \in Slugs |->
                        convert_to_patch_coords(pos[a][1], pos[a][2])],
                   !.depositOdor = [a \in Slugs |-> SlugDeposit(size[a])[1]]]
    /\ UNCHANGED <<ticks, immobilize, pos, angle, size, sensed>>

(***************************************************************************)
(* PreyAgent.step (clustering off, manual_heading off)                     *)
(***************************************************************************)
PreyStep ==
    /\ pc = "agents"
    /\ queue # <<>>
    /\ Head(queue) \in Prey
    /\ LET a == Head(queue)
           x == pos[a][1]
           y == pos[a][2]
           odor == PreyOdor(AgentKinds[a])
           cell == convert_to_patch_coords(x, y)
       IN /\ patches' = set_patch_odor(patches, x, y, odor)
          /\ \E j \in PreyJitter :
               /\ angle' = [angle EXCEPT ![a] = @ + j]
               /\ pos' = [pos EXCEPT ![a] = MoveUnlessImmobilized(@,
                                <<x + TruncDiv(20 * Cos1000(angle'[a]), 1000),
                                  y + TruncDiv(20 * Sin1000(angle'[a]), 1000)>>)]
          /\ audit' = [audit EXCEPT
                         !.stepCount[a] = @ + 1,
                         !.stepDep = [i \in OdorTypes |->
                             [@[i] EXCEPT ![cell] = @ + odor[i + 1]]],
                         !.depositWhen[a] = "in_step"]
    /\ queue' = Tail(queue)
    /\ UNCHANGED <<pc, steps, ticks, immobilize, size, sensed>>

(***************************************************************************)
(* CyberslugAgent.step: update_sensors, check_encounters (with the prey's  *)
(* respawn), the size growth of update_state, the new heading and the      *)
(* move.  The turn angle and the speed come out of the forager's internal  *)
(* state, which SpecLearn and SpecForager model; here they are drawn from   *)
(* TurnSet and SlugSpeeds.                                                 *)
(***************************************************************************)
\* the sample points of update_sensors and the patches they fall in
SensorPoints(a) ==
    <<SensorPoint(pos[a][1], pos[a][2], angle[a], size[a], 1),
      SensorPoint(pos[a][1], pos[a][2], angle[a], size[a], 2),
      SensorPoint(pos[a][1], pos[a][2], angle[a], size[a], 3),
      SensorPoint(pos[a][1], pos[a][2], angle[a], size[a], 4),
      SensorPoint(pos[a][1], pos[a][2], angle[a], size[a], 5),
      SensorPoint(pos[a][1], pos[a][2], angle[a], size[a], 6)>>

\* convert_to_patch_coords of each sample point
SensorCells(pts) ==
    <<convert_to_patch_coords(pts[1][1], pts[1][2]),
      convert_to_patch_coords(pts[2][1], pts[2][2]),
      convert_to_patch_coords(pts[3][1], pts[3][2]),
      convert_to_patch_coords(pts[4][1], pts[4][2]),
      convert_to_patch_coords(pts[5][1], pts[5][2]),
      convert_to_patch_coords(pts[6][1], pts[6][2])>>

SlugStep ==
    /\ pc = "agents"
    /\ queue # <<>>
    /\ Head(queue) \in Slugs
    /\ \E a \in {Head(queue)} :
       \E pts \in {SensorPoints(a)} :
       \E cells \in {SensorCells(pts)} :
       \E caught \in {check_encounters(a)} :
       \E encounter \in {IF caught = 0 THEN "none" ELSE AgentKinds[caught]} :
          /\ sensed' = [sensed EXCEPT ![a] =
                          [k \in SensorIds |->
                              get_odor_at_position(patches, pts[k][1], pts[k][2])]]
          /\ size' = [size EXCEPT ![a] = GrownSize(@, encounter)]
          /\ audit' = [audit EXCEPT
                         !.stepCount[a] = @ + 1,
                         !.seenDep[a] = [k \in SensorIds |-> [i \in OdorTypes |->
                                            audit.stepDep[i][cells[k]]]],
                         !.sampled[a] = cells,
                         !.ownSeen[a] = \E k \in SensorIds, i \in {0, 4} :
                             ReachedByDiffusion(i, audit.depositCell[a], cells[k]),
                         !.captured[a] = caught]
          /\ \E turn \in TurnSet, speed \in SlugSpeeds,
                place \in (IF caught = 0 THEN {<<0, 0>>} ELSE RespawnPlaces),
                newAngle \in (IF caught = 0 THEN {0} ELSE PreyAngles) :
               /\ angle' = [k \in Agents |->
                              IF k = a THEN (angle[a] + turn) % 360
                              ELSE IF k = caught THEN newAngle
                              ELSE angle[k]]
               /\ pos' = [(IF caught = 0 THEN pos ELSE respawn(pos, caught, place))
                            EXCEPT ![a] = MoveUnlessImmobilized(@,
                                   <<pos[a][1] + TruncDiv(speed * Cos1000(angle'[a]), 1000),
                                     pos[a][2] + TruncDiv(speed * Sin1000(angle'[a]), 1000)>>)]
    /\ queue' = Tail(queue)
    /\ UNCHANGED <<pc, steps, ticks, immobilize, patches>>

(***************************************************************************)
(* CyberSlugModel.step, last part: self.ticks = self.steps                 *)
(***************************************************************************)
\* the counter left where it was
StepEndKeepsTicks ==
    /\ pc = "agents"
    /\ queue = <<>>
    /\ ticks' = ticks
    /\ pc' = "idle"
    /\ UNCHANGED <<queue, steps, immobilize, pos, angle, size, sensed, patches, audit>>

StepEnd ==
    /\ pc = "agents"
    /\ queue = <<>>
    /\ ticks' = steps
    /\ pc' = "idle"
    /\ UNCHANGED <<queue, steps, immobilize, pos, angle, size, sensed, patches, audit>>

(***************************************************************************)
(* The forager's learning circuit.  A real x is held as the integer        *)
(* x * ONE; products and quotients truncate.                                *)
(***************************************************************************)
ONE == 100 * 100
encounter_cooldown == 10     \* self.encounter_cooldown = 10

\* a * b on fixed-point operands that are not negative
Mul(a, b) == (a * b) \div ONE

\* ONE / (1 + exp(-z)) for z = 0, 0.05, 0.10, ..., 12.00, rounded down
SigTable == <<
    5000, 5124, 5249, 5374, 5498, 5621, 5744, 5866, 5986, 6106, 6224, 6341,
    6456, 6570, 6681, 6791, 6899, 7005, 7109, 7211, 7310, 7407, 7502, 7595,
    7685, 7772, 7858, 7941, 8021, 8099, 8175, 8249, 8320, 8388, 8455, 8519,
    8581, 8641, 8698, 8754, 8807, 8859, 8909, 8956, 9002, 9046, 9088, 9129,
    9168, 9205, 9241, 9275, 9308, 9340, 9370, 9399, 9426, 9453, 9478, 9502,
    9525, 9547, 9568, 9589, 9608, 9626, 9644, 9661, 9677, 9692, 9706, 9720,
    9734, 9746, 9758, 9770, 9781, 9791, 9801, 9811, 9820, 9828, 9836, 9844,
    9852, 9859, 9866, 9872, 9878, 9884, 9890, 9895, 9900, 9905, 9909, 9914,
    9918, 9922, 9926, 9929, 9933, 9936, 9939, 9942, 9945, 9947, 9950, 9952,
    9955, 9957, 9959, 9961, 9963, 9964, 9966, 9968, 9969, 9971, 9972, 9974,
    9975, 9976, 9977, 9978, 9979, 9980, 9981, 9982, 9983, 9984, 9984, 9985,
    9986, 9987, 9987, 9988, 9988, 9989, 9989, 9990, 9990, 9991, 9991, 9992,
    9992, 9992, 9993, 9993, 9993, 9994, 9994, 9994, 9994, 9995, 9995, 9995,
    9995, 9996, 9996, 9996, 9996, 9996, 9996, 9997, 9997, 9997, 9997, 9997,
    9997, 9997, 9997, 9998, 9998, 9998, 9998, 9998, 9998, 9998, 9998, 9998,
    9998, 9998, 9998, 9998, 9998, 9999, 9999, 9999, 9999, 9999, 9999, 9999,
    9999, 9999, 9999, 9999, 9999, 9999, 9999, 9999, 9999, 9999, 9999, 9999,
    9999, 9999, 9999, 9999, 9999, 9999, 9999, 9999, 9999, 9999, 9999, 9999,
    9999, 9999, 9999, 9999, 9999, 9999, 9999, 9999, 9999, 9999, 9999, 9999,
    9999, 9999, 9999, 9999, 9999, 9999, 9999, 9999, 9999, 9999, 9999, 9999,
    9999
>>

\* 1 / (1 + math.exp(-z)), z >= 0: the table, interpolated; above z = 12 the
\* largest value below 1.0, and 1.0 itself once exp(-z) is lost in 1 + exp(-z)
SigmoidUpper(z) ==
    IF z >= 37 * ONE THEN ONE
    ELSE IF z >= 12 * ONE THEN ONE - 1
    ELSE LET k == z \div 500
             r == z % 500
         IN SigTable[k + 1] + ((SigTable[k + 2] - SigTable[k + 1]) * r) \div 500

\* 1 / (1 + math.exp(-z)) for any z: below 0 it is 1 - sigmoid(-z), and it
\* stays positive however small it gets
Sigmoid(z) ==
    IF z >= 0 THEN SigmoidUpper(z) ELSE Max(1, ONE - SigmoidUpper(0 - z))

\* the six pathways: Vh_rp is V["h_rp"], Wf_n_saturated is saturated["f_n"]
Pathways == {"h_rp", "h_rn", "h_n", "f_rp", "f_rn", "f_n"}
HermiPathways == {"h_rp", "h_rn", "h_n"}
FlabPathways == {"f_rp", "f_rn", "f_n"}

\* CyberSlugModel.__init__: the defaults of the flags and of
\* fix_satiation_value (1.0), and the dimensions modelled
DefaultConfig ==
    [biting |-> TRUE, clustering |-> FALSE, odor_null |-> FALSE,
     fix_satiation_override |-> FALSE, fix_satiation_value |-> ONE,
     width |-> width, height |-> height,
     patch_width |-> patch_width, patch_height |-> patch_height,
     hermi_population |-> 1]

\* the forager of the configuration modelled
TheSlug == CHOOSE a \in Slugs : TRUE

\* CyberslugAgent.__init__: the fields of the learning circuit, the encounter
\* cooldown, the habituation baseline (M0 = size / 4, size in tenths) and the
\* proboscis
NewSlug ==
    [V |-> [p \in Pathways |-> 0],
     V0 |-> [p \in Pathways |-> 0],
     W |-> [p \in Pathways |-> 0],
     saturated |-> [p \in Pathways |-> 0],
     CS1 |-> 0, CS2 |-> 0, R_pos |-> 0, R_neg |-> 0, NR |-> 0,
     R_pos_input |-> 0, R_neg_input |-> 0,
     sns_hermi |-> 0, sns_flab |-> 0,
     sns_hermi_left |-> 0, sns_hermi_right |-> 0,
     sns_flab_left |-> 0, sns_flab_right |-> 0,
     sns_betaine |-> 0, sns_betaine_left |-> 0, sns_betaine_right |-> 0,
     sns_pleur_left |-> 0, sns_pleur_right |-> 0,
     sns_pain_left |-> 0, sns_pain_right |-> 0,
     M |-> 0, M0 |-> (size[TheSlug] * ONE) \div 40, W3 |-> ONE \div 2,
     bite_counter |-> 0, bite_cooldown |-> 0, is_biting |-> FALSE,
     nutrition |-> ONE \div 2, satiation |-> ONE \div 2,
     pain |-> 0, pain_switch |-> 0,
     reward |-> 0, reward_neg |-> 0, incentive |-> 0,
     somatic_map |-> 0, app_state |-> 0, app_state_switch |-> 0,
     turn_angle |-> 0, error |-> "none",
     proboscis_phase |-> 0, proboscis_extended |-> FALSE,
     encounter_timer |-> 0,
     hermi_counter |-> 0, flab_counter |-> 0, fauxflab_counter |-> 0]

\* the CS neuron, the reward neuron and the two neurons of the baseline
\* formula that belong to a pathway
CSOf(s, p) == IF p \in HermiPathways THEN s.CS1 ELSE s.CS2

ROf(s, p) ==
    IF p \in {"h_rp", "f_rp"} THEN s.R_pos
    ELSE IF p \in {"h_rn", "f_rn"} THEN s.R_neg
    ELSE s.NR

BaselineA(s, p) == IF p \in {"h_rn", "f_rn"} THEN s.R_pos ELSE s.R_neg

BaselineB(s, p) == IF p \in {"h_n", "f_n"} THEN s.R_pos ELSE s.NR

\* lines 624-635: the CS neurons take the odor sensation, then CS and the
\* reward inputs decay by 0.8
DecayTraces(s) ==
    [s EXCEPT
       !.CS1 = (8 * (IF s.sns_hermi > 0 THEN s.sns_hermi ELSE s.CS1)) \div 10,
       !.CS2 = (8 * (IF s.sns_flab > 0 THEN s.sns_flab ELSE s.CS2)) \div 10,
       !.R_pos_input = (8 * s.R_pos_input) \div 10,
       !.R_neg_input = (8 * s.R_neg_input) \div 10]

\* lines 639-661: R+ and R- from the old NR, then NR from the new R+ and R-
\* (NR_spontaneous = 1.0)
RewardNeurons(s) ==
    LET R_pos == Sigmoid(10 * (Mul(s.W["h_rp"], s.CS1) + Mul(s.W["f_rp"], s.CS2)
                                 - s.NR \div 2 + s.R_pos_input) - 8 * ONE)
        R_neg == Sigmoid(10 * (Mul(s.W["f_rn"], s.CS2) + Mul(s.W["h_rn"], s.CS1)
                                 - s.NR \div 2 + s.R_neg_input) - 8 * ONE)
        NR == Sigmoid(4 * (Mul(s.W["h_n"], s.CS1) + Mul(s.W["f_n"], s.CS2)
                             - R_pos - R_neg + 2 * ONE) - 7 * ONE)
    IN [s EXCEPT !.R_pos = R_pos, !.R_neg = R_neg, !.NR = NR]

\* the forgetting without the floor at the baseline
AssociationWithoutFloor(s, p) ==
    s.V[p] + Mul(ONE - s.W[p], Mul(CSOf(s, p), ROf(s, p)) \div 10) - 800

\* lines 664-693: V += (1 - W) * 0.1 * CS * R, V -= 0.08, V = max(V, V0)
Association(s, p) ==
    Max(s.V[p] + Mul(ONE - s.W[p], Mul(CSOf(s, p), ROf(s, p)) \div 10) - 800,
        s.V0[p])

\* lines 696-701: W = 1 / (1 + exp(-10 * V + 8))
Weight(v) == Sigmoid(10 * v - 8 * ONE)

\* lines 704-715: if W > 0.83: saturated = 1
\* the flag follows W: saturated = 1 if W > 0.83 else 0
SaturationFollowsWeight(old, w) == IF w > 8300 THEN 1 ELSE 0

Saturation(old, w) == IF w > 8300 THEN 1 ELSE old

\* lines 719-741: V0 = saturated * (0.7 - 0.5 / (1 + exp(-5 * (CS * Ra + 0.2 * CS * Rb) + 4)))
Baseline(s, p, sat) ==
    sat * (7000 - Sigmoid(5 * (Mul(CSOf(s, p), BaselineA(s, p))
                                 + Mul(CSOf(s, p), BaselineB(s, p)) \div 5)
                          - 4 * ONE) \div 2)

\* CyberslugAgent.calc_learning_circuit
calc_learning_circuit(s) ==
    LET n == RewardNeurons(DecayTraces(s))
        V == [p \in Pathways |-> Association(n, p)]
        W == [p \in Pathways |-> Weight(V[p])]
        saturated == [p \in Pathways |-> Saturation(n.saturated[p], W[p])]
    IN [n EXCEPT
          !.V = V,
          !.W = W,
          !.saturated = saturated,
          !.V0 = [p \in Pathways |-> Baseline(n, p, saturated[p])],
          !.CS1 = (9 * n.CS1) \div 10,
          !.CS2 = (9 * n.CS2) \div 10]

\* update_state, lines 508-534: whether a capture is counted
\* every capture is counted
CountsEveryCapture(encounter, timer) == encounter # "none"

CountsCapture(encounter, timer) == encounter # "none" /\ timer = 0

\* update_state, lines 508-534: the counter, the timer and the reward input
\* of a counted capture (a hermi or fauxflab capture feeds R+, a flab one R-)
EncounterLearning(s, encounter) ==
    IF ~CountsCapture(encounter, s.encounter_timer) THEN s
    ELSE [s EXCEPT
            !.hermi_counter = IF encounter = "hermi" THEN @ + 1 ELSE @,
            !.flab_counter = IF encounter = "flab" THEN @ + 1 ELSE @,
            !.fauxflab_counter = IF encounter = "fauxflab" THEN @ + 1 ELSE @,
            !.encounter_timer = encounter_cooldown,
            !.R_pos_input = IF encounter \in {"hermi", "fauxflab"}
                            THEN @ + 2 * ONE ELSE @,
            !.R_neg_input = IF encounter = "flab" THEN @ + 2 * ONE ELSE @]

\* update_state, lines 591-593: if encounter_timer > 0: encounter_timer -= 1
TimerTick(s) ==
    [s EXCEPT !.encounter_timer = IF @ > 0 THEN @ - 1 ELSE @]

\* CyberslugAgent.calc_SH: M = W3 * S with S = W1 * Is and IN = W2 * Im
\* (W1 = W2 = 1.0), then W3 += ((M0 - M) / (S + 0.01) + 10 * IN) / 10,
\* kept in [0.1, 1.0]
calc_SH(s) ==
    LET S == (s.sns_pleur_left + s.sns_pleur_right) \div 2
        Im == (s.sns_pain_left + s.sns_pain_right) \div 2
        M == Mul(s.W3, S)
        dW3 == TruncDiv(TruncDiv((s.M0 - M) * ONE, S + ONE \div 100) + 10 * Im, 10)
    IN  [s EXCEPT !.M = M, !.W3 = Max(ONE \div 10, Min(ONE, s.W3 + dW3))]

\* a product of two signed values
MulS(a, b) == TruncDiv(a * b, ONE)

\* sns_pain_total = (sns_pain_left + sns_pain_right) / 2
PainTotal(s) == (s.sns_pain_left + s.sns_pain_right) \div 2

\* update_state, lines 508-526: nutrition += 0.3 on every capture
Feed(s, encounter) ==
    IF encounter \in {"hermi", "flab", "fauxflab"}
    THEN [s EXCEPT !.nutrition = @ + (3 * ONE) \div 10]
    ELSE s

\* lines 537-538: pain and pain_switch (spontaneous_pain = 2.0)
PainState(s) ==
    [s EXCEPT
       !.pain = 10 * Sigmoid(2 * (PainTotal(s) + 2 * ONE) - 10 * ONE),
       !.pain_switch = ONE - 2 * Sigmoid(10 * (PainTotal(s) - ONE \div 5))]

\* 1 / (1 - 0.7 * exp(-4 * nutrition + 2)) ** 2, the sum turned into a
\* difference: (g / (1.7 * g - 0.7)) ** 2
SatiationOfDifference(nutrition) ==
    LET g == Sigmoid(4 * nutrition - 2 * ONE)
        q == TruncDiv(g * ONE, (17 * g) \div 10 - (7 * ONE) \div 10)
    IN  Mul(q, q)

\* line 547: 1 / (1 + 0.7 * exp(-4 * nutrition + 2)) ** 2, which with
\* g = sigmoid(4 * nutrition - 2) is (g / (0.7 + 0.3 * g)) ** 2; the double
\* rounds it to 1.0 only once the exponential is below its last digit
SatiationOf(nutrition) ==
    LET z == 4 * nutrition - 2 * ONE
        g == Sigmoid(z)
        q == (g * ONE) \div ((7 * ONE) \div 10 + (3 * g) \div 10)
    IN  IF z >= 37 * ONE THEN ONE ELSE Max(1, Min(ONE - 1, Mul(q, q)))

\* the override branch left out
SatiateFromNutrition(s) ==
    LET n == s.nutrition - (5 * s.nutrition) \div ONE
    IN  [s EXCEPT !.nutrition = n, !.satiation = SatiationOf(n)]

\* lines 541-547: nutrition decays by 0.0005 of itself, then satiation is the
\* pinned value or follows the nutrition
Satiate(s) ==
    LET n == s.nutrition - (5 * s.nutrition) \div ONE
    IN  [s EXCEPT !.nutrition = n,
                  !.satiation = IF config.fix_satiation_override
                                THEN config.fix_satiation_value
                                ELSE SatiationOf(n)]

\* lines 550-559: reward, reward_neg and incentive
Incentive(s) ==
    LET cs == Mul(s.V["h_rp"], s.sns_hermi)
        den == ONE + cs \div 2 - (80 * ONE) \div s.satiation
        reward == TruncDiv(s.sns_betaine * ONE, den) + (132 * cs) \div 100
        reward_neg == (132 * Mul(s.V["f_rn"], s.sns_flab)) \div 100 + PainTotal(s)
    IN  [s EXCEPT !.reward = reward, !.reward_neg = reward_neg,
                  !.incentive = reward - reward_neg]

\* lines 562-565: H, F, G, P
SomaticFactors(s) ==
    LET m3 == (3 * s.M) \div 100
    IN  [H |-> s.sns_hermi - s.sns_flab - m3 - PainTotal(s),
         F |-> s.sns_flab - s.sns_hermi - m3 - PainTotal(s),
         G |-> s.M - s.sns_hermi - s.sns_flab - PainTotal(s),
         P |-> PainTotal(s)]

\* the largest argument math.exp takes without raising OverflowError, 709.78
ExpMax == 709 * ONE + 7827

\* lines 567-572: math.exp(-50 * X) raises OverflowError for X below -14.19
SomaticOverflow(s) ==
    \E k \in {"H", "F", "G", "P"} : 0 - 50 * SomaticFactors(s)[k] > ExpMax

\* lines 567-572: the somatic map
SomaticMap(s) ==
    LET X == SomaticFactors(s)
    IN  [s EXCEPT !.somatic_map =
           0 - ( MulS(s.sns_hermi_left - s.sns_hermi_right, Sigmoid(50 * X.H))
               + MulS(s.sns_flab_left - s.sns_flab_right, Sigmoid(50 * X.F))
               + MulS(s.sns_pleur_left - s.sns_pleur_right, Sigmoid(50 * X.G))
               + MulS(s.sns_pain_left - s.sns_pain_right, Sigmoid(50 * X.P)) )]

\* lines 576-583: app_state from incentive, M, satiation and betaine, with
\* the hysteresis of the previous switch; then the switch
AppState(s) ==
    LET arg == TruncDiv(6 * s.incentive, 10) + (9 * s.M) \div 10
               + 10 * MulS(s.satiation, s.sns_betaine - (54 * ONE) \div 10)
        app == ONE \div 100 + Sigmoid(arg)
               + TruncDiv(5 * (s.app_state_switch - ONE), 100)
    IN  [s EXCEPT !.app_state = app,
                  !.app_state_switch = ONE - 2 * Sigmoid(100 * (app - 2450))]

\* line 586: app_state_switch * 2 * ((1 / (1 + math.exp(3 * somatic_map))) - 0.5)
TurnOf(switch, map) ==
    MulS(switch, 2 * (Sigmoid(0 - 3 * map) - ONE \div 2))

TurnAngle(s) ==
    [s EXCEPT !.turn_angle = TurnOf(s.app_state_switch, s.somatic_map)]

\* update_state(encounter), on the fields above; an OverflowError leaves it
\* at the somatic map, with what was assigned before
update_state(s, encounter) ==
    LET s1 == Incentive(Satiate(PainState(
                  Feed(EncounterLearning(calc_SH(s), encounter), encounter))))
    IN  IF SomaticOverflow(s1)
        THEN [s1 EXCEPT !.error = "OverflowError"]
        ELSE TimerTick(calc_learning_circuit(TurnAngle(AppState(SomaticMap(s1)))))

\* CyberslugAgent.bite_slug, on the biter: bite_counter += 1, bite_cooldown = 10
bite_slug(s) ==
    [s EXCEPT !.is_biting = TRUE, !.bite_counter = @ + 1, !.bite_cooldown = 10]

\* CyberslugAgent.check_slug_interactions; inCone says that a conspecific is
\* nearer than 0.7 * size and less than 45 degrees off the heading
check_slug_interactions(s, inCone) ==
    IF inCone /\ 100 * s.M > 101 * s.M0 /\ config.biting
    THEN bite_slug([s EXCEPT !.is_biting = FALSE])
    ELSE [s EXCEPT !.is_biting = FALSE]

\* CyberslugAgent.update_sensors on what the field holds around the forager:
\* the left and right readings of a scene and their means
update_sensors(s, scene) ==
    [s EXCEPT
       !.sns_betaine_left = scene.betaine[1], !.sns_betaine_right = scene.betaine[2],
       !.sns_betaine = (scene.betaine[1] + scene.betaine[2]) \div 2,
       !.sns_hermi_left = scene.hermi[1], !.sns_hermi_right = scene.hermi[2],
       !.sns_hermi = (scene.hermi[1] + scene.hermi[2]) \div 2,
       !.sns_flab_left = scene.flab[1], !.sns_flab_right = scene.flab[2],
       !.sns_flab = (scene.flab[1] + scene.flab[2]) \div 2,
       !.sns_pleur_left = scene.pleur[1], !.sns_pleur_right = scene.pleur[2],
       !.sns_pain_left = scene.pain[1], !.sns_pain_right = scene.pain[2]]

\* CyberslugAgent.step, lines 305-307: the bite cooldown counts down
CooldownTick(s) ==
    [s EXCEPT !.bite_cooldown = IF @ > 0 THEN @ - 1 ELSE @]

\* CyberslugAgent.update_proboscis: extend while a betaine side reading is
\* above 5.5 or M is above 1.3 * M0, else retract
ProboscisTrigger(s) ==
    \/ 10 * s.sns_betaine_left > 55 * ONE
    \/ 10 * s.sns_betaine_right > 55 * ONE
    \/ 10 * s.M > 13 * s.M0

update_proboscis(s) ==
    IF ProboscisTrigger(s)
    THEN [s EXCEPT !.proboscis_phase = (@ + 1) % 20, !.proboscis_extended = TRUE]
    ELSE [s EXCEPT !.proboscis_phase = 0, !.proboscis_extended = FALSE]

\* CyberslugAgent.step on the forager's fields: sensors, prey encounter,
\* conspecifics, update_state, bite cooldown, proboscis
slug_step(s, scene) ==
    LET s1 == update_state(
                  check_slug_interactions(update_sensors(s, scene), scene.conspecific),
                  scene.encounter)
    IN  IF s1.error # "none" THEN s1 ELSE update_proboscis(CooldownTick(s1))

\* CyberSlugModel.zero_V_hermi and zero_V_flab, on a slug
zero_V_hermi(s) ==
    [s EXCEPT !.V = [p \in Pathways |-> IF p \in HermiPathways THEN 0 ELSE @[p]]]

zero_V_flab(s) ==
    [s EXCEPT !.V = [p \in Pathways |-> IF p \in FlabPathways THEN 0 ELSE @[p]]]

(***************************************************************************)
(* Bounds and input sets of the forager model.                             *)
(***************************************************************************)
MaxLearnCalls == 5       \* calls made on the forager in SpecLearn
MaxForagerTicks == 11    \* CyberslugAgent.step calls in SpecForager
MaxOdorTicks == 2        \* of them, those with prey odor at the sensors
MaxProboscisCalls == 21  \* update_proboscis calls in SpecProboscis
MaxBiteTicks == 6        \* CyberslugAgent.step calls in SpecBite
MaxTurnTicks == 2        \* CyberslugAgent.step calls in SpecTurn
MaxPinCalls == 4         \* steps and pin settings in SpecSatiation
MaxConfigOps == 3        \* constructions and deposits in SpecConfig
MaxForgetCalls == 18     \* assignments and calls made in SpecForget
MaxOrderTicks == 3       \* CyberslugAgent.step calls in SpecOrder
MaxSampleOps == 4        \* calls and assignments made in SpecSample
MaxHeld == 2             \* arrays a caller of SpecSample holds at once
MaxSeedTicks == 2        \* model.step calls on each model of SpecSeed
MaxColonySteps == 4      \* CyberslugAgent.step calls in SpecColony

\* sns_odors[1] or sns_odors[2] next to a prey: 7 + log10(1.0)
SnsNearPrey == 7 * ONE

\* what a step finds: <<encounter, sns_hermi, sns_flab>>
Situations ==
    {<<"none", 0, 0>>, <<"none", SnsNearPrey, 0>>, <<"none", 0, SnsNearPrey>>,
     <<"hermi", SnsNearPrey, 0>>, <<"flab", 0, SnsNearPrey>>,
     <<"fauxflab", 0, SnsNearPrey>>}

(***************************************************************************)
(* The history of the calls made on the forager.  It records what the code *)
(* did and is read by no update of the forager's state.                    *)
(*   calls        calls made so far                                        *)
(*   ticks        of them, CyberslugAgent.step calls                       *)
(*   odorTicks    of them, those with prey odor at the sensors             *)
(*   lastCall     the last call: "init", "step", "calc", "zero_hermi",     *)
(*                "zero_flab"                                              *)
(*   lastCapture  the last step's capture: "none", "counted" (a prey       *)
(*                counter went up) or "ignored"                            *)
(*   lastCounted  the tick of the last counted capture, 0 when none        *)
(*   minGap       the fewest ticks between two counted captures in a row   *)
(*   pinnedTicks  step calls made with the satiation pin active            *)
(***************************************************************************)
HistStart ==
    [calls |-> 0, ticks |-> 0, odorTicks |-> 0, lastCall |-> "init",
     lastCapture |-> "none", lastCounted |-> 0,
     minGap |-> 100 * encounter_cooldown, pinnedTicks |-> 0]

Counters(s) == s.hermi_counter + s.flab_counter + s.fauxflab_counter

\* what update_sensors and check_slug_interactions find in a situation with
\* no conspecific about: the same reading on both sides, betaine with the
\* odor of a hermi or a flab (a fauxflab emits none)
SceneOf(sit) ==
    [encounter |-> sit[1],
     hermi |-> <<sit[2], sit[2]>>, flab |-> <<sit[3], sit[3]>>,
     betaine |-> IF sit[2] > 0 \/ sit[1] = "flab"
                 THEN <<SnsNearPrey, SnsNearPrey>> ELSE <<0, 0>>,
     pleur |-> <<0, 0>>, pain |-> <<0, 0>>, conspecific |-> FALSE]

\* CyberslugAgent.step on the forager: update_sensors leaves sns_odors,
\* check_encounters the encounter, update_state and the rest of step follow
SlugTick(maxCalls, maxOdor) ==
    /\ hist.calls < maxCalls
    /\ slug.error = "none"
    /\ \E sit \in Situations :
         /\ (sit[2] > 0 \/ sit[3] > 0) => hist.odorTicks < maxOdor
         /\ \E s2 \in {slug_step(slug, SceneOf(sit))} :
              /\ slug' = s2
              /\ hist' = [hist EXCEPT
                    !.calls = @ + 1,
                    !.ticks = @ + 1,
                    !.odorTicks = IF sit[2] > 0 \/ sit[3] > 0 THEN @ + 1 ELSE @,
                    !.lastCall = "step",
                    !.lastCapture = IF sit[1] = "none" THEN "none"
                                    ELSE IF Counters(s2) > Counters(slug)
                                         THEN "counted" ELSE "ignored",
                    !.lastCounted = IF Counters(s2) > Counters(slug)
                                    THEN hist.ticks + 1 ELSE @,
                    !.minGap = IF Counters(s2) > Counters(slug) /\ hist.lastCounted > 0
                               THEN Min(@, hist.ticks + 1 - hist.lastCounted)
                               ELSE @]
         /\ size' = [a \in Slugs |-> GrownSize(size[a], sit[1])]
    /\ UNCHANGED <<patches, fieldOps, lastOp, pc, queue, steps, ticks,
                   immobilize, pos, angle, sensed, audit, config, otherVars>>

\* sns_odors[4] (and betaine) beside a conspecific: 7 + log10(0.1)
SnsNearSlug == 6 * ONE

\* what a step finds with conspecifics about, and with a fauxflab caught
SocialScenes ==
    {[encounter |-> "none", hermi |-> <<0, 0>>, flab |-> <<0, 0>>,
      betaine |-> <<o, o>>, pleur |-> <<o, o>>, pain |-> <<0, 0>>,
      conspecific |-> c] : o \in {0, SnsNearSlug}, c \in BOOLEAN}
    \cup {SceneOf(<<"fauxflab", 0, SnsNearPrey>>)}

\* CyberslugAgent.step on a forager among conspecifics and fauxflab prey
SocialTick ==
    /\ hist.calls < MaxBiteTicks
    /\ slug.error = "none"
    /\ \E scene \in SocialScenes : slug' = slug_step(slug, scene)
    /\ hist' = [hist EXCEPT !.calls = @ + 1, !.ticks = @ + 1,
                            !.lastCall = "step", !.lastCapture = "none"]
    /\ UNCHANGED <<fieldVars, tickVars, config, otherVars>>

\* left and right readings of one channel: none, stronger on one side, and
\* the same on both sides beside a source (7 + log10(4.0) = 7.6)
SidePairs ==
    {<<0, 0>>, <<7 * ONE, 6 * ONE>>, <<6 * ONE, 7 * ONE>>,
     <<(76 * ONE) \div 10, (76 * ONE) \div 10>>}

\* left and right pain: none, a weak pain on the left, and the pain of a
\* bite on the body axis
PainPairs == {<<0, 0>>, <<ONE, 0>>, <<15 * ONE, 15 * ONE>>}

\* what a step finds with prey odor or pain on either side and no capture;
\* a hermi emits betaine with its odor
TurnScenes ==
    {[encounter |-> "none", hermi |-> h, flab |-> f, betaine |-> h,
      pleur |-> <<0, 0>>, pain |-> p, conspecific |-> FALSE] :
        h \in SidePairs, f \in SidePairs \ {<<6 * ONE, 7 * ONE>>}, p \in PainPairs}

\* CyberslugAgent.step on a forager that steers by what it senses
TurnTick ==
    /\ hist.calls < MaxTurnTicks
    /\ slug.error = "none"
    /\ \E scene \in TurnScenes : slug' = slug_step(slug, scene)
    /\ hist' = [hist EXCEPT !.calls = @ + 1, !.ticks = @ + 1,
                            !.lastCall = "step", !.lastCapture = "none"]
    /\ UNCHANGED <<fieldVars, tickVars, config, otherVars>>

\* left and right readings of hermi odor and of the betaine that comes with
\* it: none, and a faint trail stronger on one side (5.34 and 4.34)
FaintPairs ==
    {<<0, 0>>, <<(534 * ONE) \div 100, (434 * ONE) \div 100>>,
     <<(434 * ONE) \div 100, (534 * ONE) \div 100>>}

\* what a step finds on a faint hermi trail, with a hermi caught or not
FaintScenes ==
    {[encounter |-> e, hermi |-> h, flab |-> <<0, 0>>, betaine |-> h,
      pleur |-> <<0, 0>>, pain |-> <<0, 0>>, conspecific |-> FALSE] :
        e \in {"none", "hermi"}, h \in FaintPairs}

\* CyberslugAgent.step on a forager that follows a faint hermi trail
TrailTick ==
    /\ hist.calls < MaxOrderTicks
    /\ slug.error = "none"
    /\ \E scene \in FaintScenes :
         /\ slug' = slug_step(slug, scene)
         /\ size' = [a \in Slugs |-> GrownSize(size[a], scene.encounter)]
         /\ hist' = [hist EXCEPT !.calls = @ + 1, !.ticks = @ + 1,
                                 !.lastCall = "step",
                                 !.lastCapture = IF scene.encounter = "none"
                                                 THEN "none" ELSE "counted"]
    /\ UNCHANGED <<patches, fieldOps, lastOp, pc, queue, steps, ticks,
                   immobilize, pos, angle, sensed, audit, config, otherVars>>

\* values the satiation pin takes: the slider's least value 0.01, the 0.8 of
\* test_fix_satiation and the default 1.0
PinValues == {ONE \div 100, (8 * ONE) \div 10, ONE}

\* what a step of a feeding forager finds: nothing, a hermi or a fauxflab
FeedingScenes ==
    {SceneOf(sit) : sit \in {<<"none", 0, 0>>, <<"hermi", SnsNearPrey, 0>>,
                              <<"fauxflab", 0, SnsNearPrey>>}}

\* CyberslugAgent.step on a feeding forager
FeedTick ==
    /\ hist.calls < MaxPinCalls
    /\ slug.error = "none"
    /\ \E scene \in FeedingScenes :
         /\ slug' = slug_step(slug, scene)
         /\ size' = [a \in Slugs |-> GrownSize(size[a], scene.encounter)]
    /\ hist' = [hist EXCEPT !.calls = @ + 1, !.ticks = @ + 1,
                            !.lastCall = "step", !.lastCapture = "none",
                            !.pinnedTicks = IF config.fix_satiation_override
                                            THEN @ + 1 ELSE @]
    /\ UNCHANGED <<patches, fieldOps, lastOp, pc, queue, steps, ticks,
                   immobilize, pos, angle, sensed, audit, config, otherVars>>

\* model.fix_satiation_override and model.fix_satiation_value set between
\* steps, as the control panel does
SetPin ==
    /\ hist.calls < MaxPinCalls
    /\ \E o \in BOOLEAN, v \in PinValues :
         /\ <<o, v>> # <<config.fix_satiation_override, config.fix_satiation_value>>
         /\ config' = [config EXCEPT !.fix_satiation_override = o,
                                      !.fix_satiation_value = v]
    /\ hist' = [hist EXCEPT !.calls = @ + 1, !.lastCall = "pin",
                            !.lastCapture = "none"]
    /\ UNCHANGED <<fieldVars, tickVars, slug, otherVars>>

\* slug.calc_learning_circuit(), called on its own as the tests do
CalcLearningCircuitCall ==
    /\ hist.calls < MaxLearnCalls
    /\ \E s2 \in {calc_learning_circuit(slug)} : slug' = s2
    /\ hist' = [hist EXCEPT !.calls = @ + 1, !.lastCall = "calc",
                            !.lastCapture = "none"]
    /\ UNCHANGED <<fieldVars, tickVars, config, otherVars>>

\* slug.Vh_rp = 1.0; slug.Vh_rp0 = 0.0 as test_forgetting_mechanism does, on
\* one pathway of either odor: 1.0, the least value that saturates the
\* weight after one call (1.04), and the 2.0 of test_saturation_detection
AssignedStrengths == {ONE, (104 * ONE) \div 100, 2 * ONE}

SetAssociation ==
    /\ hist.calls < MaxForgetCalls
    /\ \E p \in {"h_rp", "f_rn"}, v \in AssignedStrengths :
         /\ slug.V[p] # v
         /\ slug' = [slug EXCEPT !.V[p] = v, !.V0[p] = 0]
    /\ hist' = [hist EXCEPT !.calls = @ + 1, !.lastCall = "assign",
                            !.lastCapture = "none"]
    /\ UNCHANGED <<fieldVars, tickVars, config, otherVars>>

\* slug.calc_learning_circuit(), called in a loop as test_forgetting_mechanism does
ForgetCall ==
    /\ hist.calls < MaxForgetCalls
    /\ slug' = calc_learning_circuit(slug)
    /\ hist' = [hist EXCEPT !.calls = @ + 1, !.lastCall = "calc",
                            !.lastCapture = "none"]
    /\ UNCHANGED <<fieldVars, tickVars, config, otherVars>>

\* model.zero_V_hermi()
ZeroVHermiCall ==
    /\ hist.calls < MaxLearnCalls
    /\ slug' = zero_V_hermi(slug)
    /\ hist' = [hist EXCEPT !.calls = @ + 1, !.lastCall = "zero_hermi",
                            !.lastCapture = "none"]
    /\ UNCHANGED <<fieldVars, tickVars, config, otherVars>>

\* model.zero_V_flab()
ZeroVFlabCall ==
    /\ hist.calls < MaxLearnCalls
    /\ slug' = zero_V_flab(slug)
    /\ hist' = [hist EXCEPT !.calls = @ + 1, !.lastCall = "zero_flab",
                            !.lastCapture = "none"]
    /\ UNCHANGED <<fieldVars, tickVars, config, otherVars>>

\* slug.update_proboscis(), called on its own as test_proboscis_behavior does,
\* on the readings that update_sensors and calc_SH may have left
BetaineReadings == {0, (55 * ONE) \div 10, 6 * ONE}

UpdateProboscisCall ==
    /\ hist.calls < MaxProboscisCalls
    /\ \E bl \in BetaineReadings, br \in {0, 6 * ONE},
          m \in {0, (13 * slug.M0) \div 10, 2 * slug.M0} :
         slug' = update_proboscis([slug EXCEPT !.sns_betaine_left = bl,
                                               !.sns_betaine_right = br,
                                               !.M = m])
    /\ hist' = [hist EXCEPT !.calls = @ + 1, !.lastCall = "proboscis",
                            !.lastCapture = "none"]
    /\ UNCHANGED <<fieldVars, tickVars, config, otherVars>>

\* CyberslugAgent.__init__
(***************************************************************************)
(* A caller that samples the field and keeps what it was given.  Each      *)
(* entry of held is an array with its history: the call that returned it,  *)
(* the point asked for, the values it had when returned (seen), whether    *)
(* the caller has assigned to it (written) and whether the field is still  *)
(* as it was at the call (fresh).                                          *)
(***************************************************************************)
SamplePoints == {<<4 * MILLI, 4 * MILLI>>, <<7 * MILLI, 1 * MILLI>>}
SampleHeadings == {0, 90}
WrittenValues == {7 * FONE}

Handle(p, arr, by, pt) ==
    [arr |-> arr, by |-> by, pt |-> pt, seen |-> ArrayRead(p, arr),
     written |-> FALSE, fresh |-> TRUE]

\* the held arrays after a call that leaves the field as p2
Aged(h, p1, p2) ==
    [k \in 1 .. Len(h) |-> [h[k] EXCEPT !.fresh = @ /\ p1 = p2]]

\* odor = model.get_odor_at_position(x, y)
SampleCall ==
    /\ fieldOps < MaxSampleOps
    /\ Len(held) < MaxHeld
    /\ \E pt \in SamplePoints :
         /\ held' = Append(held, Handle(patches,
                        get_odor_at_position_array(patches, pt[1], pt[2]),
                        "get_odor_at_position", pt))
         /\ lastOp' = <<"get_odor_at_position", pt>>
    /\ fieldOps' = fieldOps + 1
    /\ UNCHANGED <<patches, tickVars, slugVars, runs, colony>>

\* left, right = model.get_sensors(x, y, heading); the caller keeps left
SensorsCall ==
    /\ fieldOps < MaxSampleOps
    /\ Len(held) < MaxHeld
    /\ \E pt \in SamplePoints, heading \in SampleHeadings :
         /\ held' = Append(held, Handle(patches,
                        get_sensors(pt[1], pt[2], heading)[1], "get_sensors", pt))
         /\ lastOp' = <<"get_sensors", pt, heading>>
    /\ fieldOps' = fieldOps + 1
    /\ UNCHANGED <<patches, tickVars, slugVars, runs, colony>>

\* odor[i] = v on an array the caller holds
AssignHeld ==
    /\ fieldOps < MaxSampleOps
    /\ \E k \in 1 .. Len(held), i \in {0, 1}, v \in WrittenValues :
         /\ patches' = ArrayWriteField(patches, held[k].arr, i, v)
         /\ held' = [Aged(held, patches, patches') EXCEPT
                        ![k].arr = ArrayWriteData(@, i, v),
                        ![k].written = TRUE]
         /\ lastOp' = <<"assign", k, i, v>>
    /\ fieldOps' = fieldOps + 1
    /\ UNCHANGED <<tickVars, slugVars, runs, colony>>

\* model.set_patch_odor(x, y, odorlist) while arrays are held
DepositHeld ==
    /\ fieldOps < MaxSampleOps
    /\ \E pt \in SamplePoints, odorlist \in {PreyOdor("hermi")} :
         /\ patches' = set_patch_odor(patches, pt[1], pt[2], odorlist)
         /\ lastOp' = <<"set_patch_odor", pt, odorlist>>
    /\ held' = Aged(held, patches, patches')
    /\ fieldOps' = fieldOps + 1
    /\ UNCHANGED <<tickVars, slugVars, runs, colony>>

\* model.update_odor_patches() while arrays are held
FieldStepHeld ==
    /\ fieldOps < MaxSampleOps
    /\ patches' = update_odor_patches(patches, <<>>)
    /\ lastOp' = <<"update_odor_patches">>
    /\ held' = Aged(held, patches, patches')
    /\ fieldOps' = fieldOps + 1
    /\ UNCHANGED <<tickVars, slugVars, runs, colony>>

(***************************************************************************)
(* Two models of one configuration (one slug, one hermi, clustering off)   *)
(* that a caller constructs and steps side by side.  Every random draw of  *)
(* the program goes through model.random, a random.Random that             *)
(* Model.__init__ seeds with its seed argument; CyberSlugModel.__init__    *)
(* has no seed parameter and calls super().__init__() without one, so the  *)
(* generator is seeded from the operating system's entropy.  The generator *)
(* is held as a small congruential one: what matters is that each draw is  *)
(* a function of its state.  The field is left out: the foragers' sensors  *)
(* read nothing.                                                           *)
(***************************************************************************)
RunIds == {1, 2}
RngStates == 4 * 4
Entropy == {0, 1, 2, 3}      \* what random.Random(None) takes from the system
Seeds == {1, 2}              \* seeds a caller asks for

\* random.Random(a), and the state after one draw
Seeded(a) == a % RngStates
Drawn(r) == (5 * r + 3) % RngStates

\* self.random.randrange(n) and self.random.uniform(lo, hi) in state r
randrange(r, n) == (r * n) \div RngStates
uniform(r, lo, hi) == lo + (r * (hi - lo)) \div RngStates

QuietScene ==
    [encounter |-> "none", hermi |-> <<0, 0>>, flab |-> <<0, 0>>,
     betaine |-> <<0, 0>>, pleur |-> <<0, 0>>, pain |-> <<0, 0>>,
     conspecific |-> FALSE]

\* CyberSlugModel(): the six cluster centres, then the slug (its size in
\* CyberslugAgent.__init__, then x and y), then the hermi (angle, heading,
\* x and y); angles in degrees times ONE
NewRun(a) ==
    LET r6 == Drawn(Drawn(Drawn(Drawn(Drawn(Drawn(Seeded(a)))))))
        r7 == Drawn(r6)
        r8 == Drawn(r7)
        r9 == Drawn(r8)
        r13 == Drawn(Drawn(Drawn(Drawn(r9))))
        sz == 50 + uniform(r6, 0, 100)
    IN [rng |-> r13, ticks |-> 0, order |-> <<>>,
        size |-> sz,
        x |-> randrange(r7, width) * MILLI,
        y |-> randrange(r8, height) * MILLI,
        angle |-> 0,
        preyAngle |-> uniform(r9, 0, 360) * ONE,
        slug |-> [NewSlug EXCEPT !.M0 = (sz * ONE) \div 40]]

\* actual_speed = 0.10 + sns_pain_caud / 20 - satiation / 20 with no pain,
\* thousandths of a world unit
actual_speed(s) == 100 - s.satiation \div (2 * 100)

\* model.step of one model: the scheduler shuffles, the prey's angle takes
\* its uniform(-1, 1), the slug steps, turns and moves
RunStep(m) ==
    LET r1 == Drawn(m.rng)
        r2 == Drawn(r1)
        s2 == slug_step(m.slug, QuietScene)
        a2 == (m.angle + s2.turn_angle) % (360 * ONE)
        speed == actual_speed(s2)
        to == torus_adj(<<m.x + TruncDiv(speed * Cos1000(a2 \div ONE), 1000),
                          m.y + TruncDiv(speed * Sin1000(a2 \div ONE), 1000)>>)
    IN [m EXCEPT !.rng = r2,
                 !.ticks = @ + 1,
                 !.order = IF m.rng % 2 = 0 THEN <<"slug", "hermi">>
                           ELSE <<"hermi", "slug">>,
                 !.preyAngle = @ + uniform(r1, 0 - ONE, ONE),
                 !.slug = s2,
                 !.angle = a2,
                 !.x = to[1],
                 !.y = to[2]]

NoRuns ==
    [error |-> "none", built |-> FALSE, seeded |-> FALSE, seed |-> 0,
     m |-> [i \in RunIds |-> NewRun(0)]]

\* CyberSlugModel(seed=s), twice: the constructor has no such parameter
ConstructSeeded ==
    /\ ~runs.built
    /\ \E s \in Seeds :
         runs' = [NoRuns EXCEPT !.error = "TypeError", !.seed = s]
    /\ UNCHANGED <<fieldVars, tickVars, slugVars, held, colony>>

\* CyberSlugModel(), twice
ConstructModels ==
    /\ ~runs.built
    /\ \E e \in [RunIds -> Entropy] :
         runs' = [NoRuns EXCEPT !.built = TRUE,
                                !.m = [i \in RunIds |-> NewRun(e[i])]]
    /\ UNCHANGED <<fieldVars, tickVars, slugVars, held, colony>>

\* model.random.seed(s) on both models, before their first step: the one
\* way a caller has to give the models a seed
SeedRuns ==
    /\ runs.built
    /\ ~runs.seeded
    /\ \A i \in RunIds : runs.m[i].ticks = 0
    /\ \E s \in Seeds :
         runs' = [runs EXCEPT !.seeded = TRUE, !.seed = s,
                              !.m = [i \in RunIds |-> [@[i] EXCEPT !.rng = Seeded(s)]]]
    /\ UNCHANGED <<fieldVars, tickVars, slugVars, held, colony>>

\* model.step() on one of the two models
StepRun ==
    /\ runs.built
    /\ \E i \in RunIds :
         /\ runs.m[i].ticks < MaxSeedTicks
         /\ runs.m[i].slug.error = "none"
         /\ runs' = [runs EXCEPT !.m[i] = RunStep(@)]
    /\ UNCHANGED <<fieldVars, tickVars, slugVars, held, colony>>
(***************************************************************************)
(* A model with three foragers (num_slugs = 3) and what their steps do to  *)
(* each other: check_slug_interactions and bite_slug, the motivation M     *)
(* that update_state leaves, and the decay of the nociceptors.  painval    *)
(* is the sum over a forager's nociceptors, times ONE.  met is history:    *)
(* the foragers as the last check_slug_interactions call left them.        *)
(***************************************************************************)
ColonySlugs == {1, 2, 3}
ColonyM0 == (5 * ONE) \div 2            \* M0 of a forager of size 10
ColonyM == {0, 3 * ONE}                 \* values update_state leaves in M
BiteAmounts == {(20 * 10 * ONE) \div 11} \* 20.0 / (dist + 0.1), dist = 1.0

NewForager ==
    [bite_counter |-> 0, bitten_counter |-> 0, painval |-> 0,
     is_biting |-> FALSE, M |-> 0, M0 |-> ColonyM0]

NewColony ==
    [slugs |-> [a \in ColonySlugs |-> NewForager],
     met |-> [a \in ColonySlugs |-> NewForager],
     steps |-> 0, by |-> 0]

\* bite_slug that leaves the target's counter alone
bite_slug_uncounted(c, a, target, amount) ==
    [c EXCEPT ![a].is_biting = TRUE,
              ![a].bite_counter = @ + 1,
              ![target].painval = @ + amount]

\* bite_slug(target) called on forager a
bite_slug_target(c, a, target, amount) ==
    [c EXCEPT ![a].is_biting = TRUE,
              ![a].bite_counter = @ + 1,
              ![target].bitten_counter = @ + 1,
              ![target].painval = @ + amount]

\* the first neighbor of the list that is another forager inside the cone
RECURSIVE FirstInCone(_, _, _)
FirstInCone(neighbors, a, inCone) ==
    IF neighbors = <<>> THEN 0
    ELSE IF Head(neighbors) # a /\ Head(neighbors) \in inCone THEN Head(neighbors)
    ELSE FirstInCone(Tail(neighbors), a, inCone)

\* check_slug_interactions of forager a: neighbors is what get_neighbors
\* returned, inCone the foragers nearer than 0.7 * size and less than 45
\* degrees off the heading
check_slug_interactions_among(c, a, neighbors, inCone, amount) ==
    LET c0 == [c EXCEPT ![a].is_biting = FALSE]
        target == FirstInCone(neighbors, a, inCone)
    IN IF target # 0 /\ 100 * c[a].M > 101 * c[a].M0 /\ config.biting
       THEN bite_slug_target(c0, a, target, amount)
       ELSE c0

\* get_neighbors lists the agents in the order in which they were placed
RECURSIVE InPlacementOrder(_, _)
InPlacementOrder(S, k) ==
    IF k > Cardinality(ColonySlugs) THEN <<>>
    ELSE (IF k \in S THEN <<k>> ELSE <<>>) \o InPlacementOrder(S, k + 1)

\* CyberslugAgent.step of forager a among the others
ColonyStep ==
    /\ colony.steps < MaxColonySteps
    /\ \E a \in ColonySlugs, near \in SUBSET ColonySlugs, m \in ColonyM,
          amount \in BiteAmounts :
         /\ a \notin near
         /\ \E inCone \in SUBSET near :
              LET met == check_slug_interactions_among(colony.slugs, a,
                             InPlacementOrder(near, 1), inCone, amount)
              IN colony' = [slugs |-> [met EXCEPT ![a].M = m,
                                                  ![a].painval = (@ * 20) \div 100],
                            met |-> met,
                            steps |-> colony.steps + 1,
                            by |-> a]
    /\ UNCHANGED <<fieldVars, tickVars, slugVars, held, runs>>

\* no array handed out yet, no model pair constructed, a fresh colony
OtherInit ==
    /\ held = <<>>
    /\ runs = NoRuns
    /\ colony = NewColony

SlugInit ==
    /\ slug = NewSlug
    /\ hist = HistStart
    /\ config = DefaultConfig
    /\ OtherInit

FieldInit ==
    /\ patches = ZeroPatches
    /\ fieldOps = 0
    /\ lastOp = <<"init">>

\* CyberSlugModel.__init__ and _create_agents, the prey placed in preyStart
TickInitAt(preyStart) ==
    /\ pc = "idle"
    /\ queue = <<>>
    /\ steps = 0
    /\ ticks = 0
    /\ immobilize \in BOOLEAN
    /\ pos \in [Agents -> SlugStart \cup preyStart]
    /\ \A a \in Agents : pos[a] \in (IF a \in Slugs THEN SlugStart ELSE preyStart)
    /\ angle \in [Agents -> {0} \cup PreyAngles]
    /\ \A a \in Agents : angle[a] \in (IF a \in Slugs THEN {0} ELSE PreyAngles)
    /\ size \in [Slugs -> StartSizes]
    /\ sensed = [a \in Slugs |-> [k \in SensorIds |-> [i \in OdorTypes |-> 0]]]
    /\ audit = AuditStart

TickInit == TickInitAt(PreyStart)

vars == <<patches, fieldOps, lastOp, pc, queue, steps, ticks, immobilize, pos,
          angle, size, sensed, audit, slug, hist, config, held, runs, colony>>

(***************************************************************************)
(* Spec: runs of CyberSlugModel.step.                                      *)
(***************************************************************************)
Init == FieldInit /\ TickInit /\ SlugInit

Next ==
    \/ StepBegin /\ UNCHANGED <<fieldOps, lastOp, slug, hist, config, otherVars>>
    \/ PreyStep /\ UNCHANGED <<fieldOps, lastOp, slug, hist, config, otherVars>>
    \/ SlugStep /\ UNCHANGED <<fieldOps, lastOp, slug, hist, config, otherVars>>
    \/ StepEnd /\ UNCHANGED <<fieldOps, lastOp, slug, hist, config, otherVars>>

Spec == Init /\ [][Next]_vars

(***************************************************************************)
(* SpecField: the field of a model without agents (num_slugs = 0 and no    *)
(* prey), driven through set_patch_odor and update_odor_patches.           *)
(***************************************************************************)
DepositPoints == {<<4 * MILLI, 4 * MILLI>>, <<7 * MILLI, 1 * MILLI>>}
DepositVectors ==
    {<<FONE, 0, 0, 0, 0>>, <<0, 0, 0, 0, FONE>>, PreyOdor("hermi")}

SetPatchOdorCall ==
    /\ fieldOps < MaxFieldOps
    /\ \E pt \in DepositPoints, odorlist \in DepositVectors :
         /\ patches' = set_patch_odor(patches, pt[1], pt[2], odorlist)
         /\ lastOp' = <<"set_patch_odor", pt, odorlist>>
    /\ fieldOps' = fieldOps + 1
    /\ UNCHANGED <<tickVars, slugVars, otherVars>>

UpdateOdorPatchesCall ==
    /\ fieldOps < MaxFieldOps
    /\ patches' = update_odor_patches(patches, <<>>)
    /\ lastOp' = <<"update_odor_patches">>
    /\ fieldOps' = fieldOps + 1
    /\ UNCHANGED <<tickVars, slugVars, otherVars>>

FieldModelInit ==
    /\ FieldInit
    /\ TickInit
    /\ SlugInit
    /\ ~immobilize
    /\ \A a \in Prey : pos[a] = <<7 * MILLI, 7 * MILLI>>

NextField == SetPatchOdorCall \/ UpdateOdorPatchesCall

SpecField == FieldModelInit /\ [][NextField]_vars

(***************************************************************************)
(* SpecCoords: set_patch_odor and get_odor_at_position called with any     *)
(* coordinates, inside the world rectangle or not.                         *)
(***************************************************************************)
MaxCoordOps == 3     \* deposits and samples made in SpecCoords

\* a point of the world, one left of and above it, one right of and below it,
\* and the world's far corner (x = width, y = height)
AnyPoints ==
    {<<4 * MILLI, 4 * MILLI>>, <<0 - 5 * MILLI, 20 * MILLI>>,
     <<30 * MILLI, 0 - 1>>, <<width * MILLI, height * MILLI>>}

\* model.set_patch_odor(x, y, odorlist)
SetPatchOdorAnywhere ==
    /\ fieldOps < MaxCoordOps
    /\ \E pt \in AnyPoints, odorlist \in DepositVectors :
         /\ patches' = set_patch_odor(patches, pt[1], pt[2], odorlist)
         /\ lastOp' = <<"set_patch_odor", pt, odorlist>>
    /\ fieldOps' = fieldOps + 1
    /\ UNCHANGED <<tickVars, slugVars, otherVars>>

\* model.get_odor_at_position(x, y): the field is left alone, the copy of the
\* cell's vector goes to the caller
GetOdorAtPositionCall ==
    /\ fieldOps < MaxCoordOps
    /\ \E pt \in AnyPoints :
         lastOp' = <<"get_odor_at_position", pt,
                     get_odor_at_position(patches, pt[1], pt[2])>>
    /\ fieldOps' = fieldOps + 1
    /\ UNCHANGED <<patches, tickVars, slugVars, otherVars>>

NextCoords == SetPatchOdorAnywhere \/ GetOdorAtPositionCall \/ UpdateOdorPatchesCall

SpecCoords == FieldModelInit /\ [][NextCoords]_vars

(***************************************************************************)
(* SpecLearn: one forager driven through step, calc_learning_circuit and   *)
(* the model's zero_V_hermi and zero_V_flab, with any odor at every step.  *)
(***************************************************************************)
NextLearn ==
    \/ SlugTick(MaxLearnCalls, MaxLearnCalls)
    \/ CalcLearningCircuitCall
    \/ ZeroVHermiCall
    \/ ZeroVFlabCall

SpecLearn == FieldModelInit /\ [][NextLearn]_vars

(***************************************************************************)
(* SpecForager: one forager through a longer run of steps.                 *)
(***************************************************************************)
NextForager == SlugTick(MaxForagerTicks, MaxOdorTicks)

SpecForager == FieldModelInit /\ [][NextForager]_vars

(***************************************************************************)
(* SpecProboscis: update_proboscis called tick after tick.                 *)
(***************************************************************************)
NextProboscis == UpdateProboscisCall

SpecProboscis == FieldModelInit /\ [][NextProboscis]_vars

(***************************************************************************)
(* SpecBite: steps of a forager among conspecifics and fauxflab prey, in a  *)
(* model constructed with biting on or off.                                *)
(***************************************************************************)
BiteInit ==
    /\ FieldInit
    /\ TickInit
    /\ slug = NewSlug
    /\ hist = HistStart
    /\ \E b \in BOOLEAN : config = [DefaultConfig EXCEPT !.biting = b]
    /\ OtherInit

NextBite == SocialTick

SpecBite == BiteInit /\ [][NextBite]_vars

(***************************************************************************)
(* SpecTurn: steps of a forager that senses prey odor and pain on its two  *)
(* sides.                                                                  *)
(***************************************************************************)
NextTurn == TurnTick

SpecTurn == FieldModelInit /\ [][NextTurn]_vars

(***************************************************************************)
(* SpecSatiation: steps of a feeding forager in a model whose satiation    *)
(* pin is set at construction and between steps.                           *)
(***************************************************************************)
SatiationInit ==
    /\ FieldInit
    /\ TickInit
    /\ slug = NewSlug
    /\ hist = HistStart
    /\ \E o \in BOOLEAN, v \in PinValues :
         config = [DefaultConfig EXCEPT !.fix_satiation_override = o,
                                        !.fix_satiation_value = v]
    /\ OtherInit

NextSatiation == FeedTick \/ SetPin

SpecSatiation == SatiationInit /\ [][NextSatiation]_vars

(***************************************************************************)
(* SpecConfig: models constructed with any arguments, and deposits of odor *)
(* vectors of any length.                                                  *)
(***************************************************************************)
\* the arguments of CyberSlugModel(...): the defaults, and the defaults with
\* one dimension or population zero or negative
DefaultParams ==
    [width |-> width, height |-> height, patch_width |-> patch_width,
     patch_height |-> patch_height, hermi_population |-> 1]

ConstructorParams ==
    {DefaultParams}
    \cup {[DefaultParams EXCEPT !.width = v] : v \in {0, 0 - width}}
    \cup {[DefaultParams EXCEPT !.height = v] : v \in {0, 0 - height}}
    \cup {[DefaultParams EXCEPT !.patch_width = v] : v \in {0, 0 - 1}}
    \cup {[DefaultParams EXCEPT !.patch_height = v] : v \in {0, 0 - 1}}
    \cup {[DefaultParams EXCEPT !.hermi_population = v] : v \in {0 - 1}}

\* CyberSlugModel.__init__ has no check of its arguments; what stops it is
\* patch_width / width (line 73), np.zeros with a negative dimension
\* (line 83) and randrange of a number that is not positive (lines 107-112)
Construction(params) ==
    IF params.width = 0 THEN "ZeroDivisionError"
    ELSE IF params.patch_width < 0 \/ params.patch_height < 0 THEN "ValueError"
    ELSE IF params.width < 0 \/ params.height <= 0 THEN "ValueError"
    ELSE "ok"

\* model = CyberSlugModel(...): a new model with an empty field, or an
\* exception that leaves the model there was
ConstructCall ==
    /\ fieldOps < MaxConfigOps
    /\ \E params \in ConstructorParams :
         /\ lastOp' = <<"construct", params, Construction(params)>>
         /\ IF Construction(params) = "ok"
            THEN /\ config' = [DefaultConfig EXCEPT
                                  !.width = params.width,
                                  !.height = params.height,
                                  !.patch_width = params.patch_width,
                                  !.patch_height = params.patch_height,
                                  !.hermi_population = params.hermi_population]
                 /\ patches' = ZeroPatches
            ELSE UNCHANGED <<config, patches>>
    /\ fieldOps' = fieldOps + 1
    /\ UNCHANGED <<tickVars, slug, hist, otherVars>>

\* odor vectors of 1, 4, 5 and 6 values
AnyVectors ==
    {<<FONE>>, <<FONE, 0, 0, 0>>, <<FONE, 0, 0, 0, 0>>, <<FONE, 0, 0, 0, 0, 0>>}

\* model.set_patch_odor(x, y, odorlist) with a vector of any length; a model
\* accepted with patch_width = 0 or patch_height = 0 has no cell to index
DepositOutcome(odorlist) ==
    IF config.patch_width = 0 \/ config.patch_height = 0 THEN "IndexError"
    ELSE IF BroadcastRaises(odorlist) THEN "ValueError"
    ELSE "ok"

SetPatchOdorVector ==
    /\ fieldOps < MaxConfigOps
    /\ \E pt \in DepositPoints, odorlist \in AnyVectors :
         /\ lastOp' = <<"set_patch_odor", pt, odorlist, DepositOutcome(odorlist)>>
         /\ patches' = IF DepositOutcome(odorlist) = "ok"
                       THEN set_patch_odor(patches, pt[1], pt[2], odorlist)
                       ELSE patches
    /\ fieldOps' = fieldOps + 1
    /\ UNCHANGED <<tickVars, slugVars, otherVars>>

NextConfig == ConstructCall \/ SetPatchOdorVector

SpecConfig == FieldModelInit /\ [][NextConfig]_vars

(***************************************************************************)
(* SpecForget: a forager whose association strengths a test assigns, then  *)
(* calc_learning_circuit called again and again.                           *)
(***************************************************************************)
NextForget == SetAssociation \/ ForgetCall

SpecForget == FieldModelInit /\ [][NextForget]_vars

(***************************************************************************)
(* SpecOrder: steps of a forager on a faint hermi trail.                   *)
(***************************************************************************)
NextOrder == TrailTick

SpecOrder == FieldModelInit /\ [][NextOrder]_vars

(***************************************************************************)
(* SpecSample: a caller samples the field, keeps and overwrites what it    *)
(* was given, and the field goes on changing.                              *)
(***************************************************************************)
NextSample ==
    SampleCall \/ SensorsCall \/ AssignHeld \/ DepositHeld \/ FieldStepHeld

SpecSample == FieldModelInit /\ [][NextSample]_vars

(***************************************************************************)
(* SpecSeed: two models of one configuration, constructed and stepped.     *)
(***************************************************************************)
NextSeed == ConstructSeeded \/ ConstructModels \/ SeedRuns \/ StepRun

SpecSeed == FieldModelInit /\ [][NextSeed]_vars

(***************************************************************************)
(* SpecColony: steps of three foragers that meet, in a model constructed   *)
(* with biting on or off.                                                  *)
(***************************************************************************)
NextColony == ColonyStep

SpecColony == BiteInit /\ [][NextColony]_vars

(***************************************************************************)
(* SpecCapture: runs of CyberSlugModel.step of a model whose two prey are  *)
(* placed in front of the forager, at 2.24 and at 1.0 from it.             *)
(***************************************************************************)
CaptureStart == {<<6 * MILLI, 5 * MILLI>>, <<5 * MILLI, 4 * MILLI>>}

CaptureInit == FieldInit /\ TickInitAt(CaptureStart) /\ SlugInit

SpecCapture == CaptureInit /\ [][Next]_vars

(***************************************************************************)
(* SpecOdorNull: runs of CyberSlugModel.step of a model made with          *)
(* odor_null=True.                                                         *)
(***************************************************************************)
OdorNullInit ==
    /\ FieldInit
    /\ TickInit
    /\ slug = NewSlug
    /\ hist = HistStart
    /\ config = [DefaultConfig EXCEPT !.odor_null = TRUE]
    /\ OtherInit

SpecOdorNull == OdorNullInit /\ [][Next]_vars

(***************************************************************************)
(* Claims about the field and the tick.                                    *)
(***************************************************************************)
\* the Moore neighbourhood on the torus, from the coordinates
IsMooreNeighbour(c, d) ==
    /\ c # d
    /\ (CellX(c) - CellX(d)) % patch_width \in {0, 1, patch_width - 1}
    /\ (CellY(c) - CellY(d)) % patch_height \in {0, 1, patch_height - 1}

C5_MassStrictlyDecreases ==
    [][UpdateOdorPatchesCall =>
         \A i \in OdorTypes : Mass(patches', i) < Mass(patches, i)]_vars

\* C5 amended: with no deposit, a field step leaves the total mass of a channel
\* strictly smaller when the channel holds any mass, and leaves an empty
\* channel empty.
C5_MassDecreasesUnlessEmpty ==
    [][UpdateOdorPatchesCall =>
         \A i \in OdorTypes :
            IF Mass(patches, i) > 0
            THEN Mass(patches', i) < Mass(patches, i)
            ELSE Mass(patches', i) = 0]_vars

C5_Witness ==
    /\ lastOp = <<"update_odor_patches">>
    /\ \E i \in OdorTypes : Mass(patches, i) > 0

\* the field holds one unit deposit, of odor i in cell c, and nothing else
SingleUnitDeposit(p, i, c) ==
    /\ p[i][c] = FONE
    /\ \A j \in OdorTypes, d \in Cells : (j # i \/ d # c) => p[j][d] = 0

\* the 8 Moore neighbours of c hold evap * (frac / 8), c holds
\* evap * (1 - frac), everything else 0 (frac = 0.5 for odor 4, else 1.0)
UnitDepositDiffused(p, i, c) ==
    \A j \in OdorTypes, d \in Cells :
        p[j][d] = IF j # i THEN 0
                  ELSE IF d = c
                       THEN (IF i = 4 THEN (19 * FONE) \div 40 ELSE 0)
                  ELSE IF IsMooreNeighbour(c, d)
                       THEN (IF i = 4 THEN (19 * FONE) \div 320
                                      ELSE (19 * FONE) \div 160)
                  ELSE 0

\* C6: from an all-zero field with a single unit deposit, one field step leaves
\* evap * (frac / 8) in each of the 8 Moore neighbours, evap * (1 - frac) in
\* the cell itself and 0 everywhere else.
C6_UnitDepositAfterOneStep ==
    [][UpdateOdorPatchesCall =>
         \A i \in OdorTypes, c \in Cells :
            SingleUnitDeposit(patches, i, c) => UnitDepositDiffused(patches', i, c)]_vars

C6_Witness ==
    /\ lastOp = <<"update_odor_patches">>
    /\ fieldOps = 2
    /\ \E i \in {0, 4}, c \in Cells : UnitDepositDiffused(patches, i, c)

\* C7: every concentration of every channel and cell is non-negative.
C7_ConcentrationsNonNegative ==
    \A i \in OdorTypes, c \in Cells : patches[i][c] >= 0

C7_Witness ==
    /\ steps >= 2
    /\ \E a \in Prey : audit.stepCount[a] = 1
    /\ \E i \in OdorTypes, c \in Cells : patches[i][c] > 0

\* C8: a model.step advances the field exactly once, before any agent steps,
\* and then steps every scheduled agent exactly once.
C8_FieldOnceThenEveryAgentOnce ==
    /\ \A a \in Agents : audit.stepCount[a] >= 1 => audit.fieldUpdates = 1
    /\ pc = "agents" =>
         /\ audit.fieldUpdates = 1
         /\ \A a \in Agents :
              audit.stepCount[a] =
                 IF \E k \in 1 .. Len(queue) : queue[k] = a THEN 0 ELSE 1
    /\ (pc = "idle" /\ steps > 0) =>
         /\ audit.fieldUpdates = 1
         /\ \A a \in Agents : audit.stepCount[a] = 1

C8_Witness ==
    /\ pc = "idle"
    /\ steps = 2
    /\ \A a \in Agents : audit.stepCount[a] = 1

\* C9: a deposit made by an agent in its step is in the field, undiffused, for
\* every agent that steps later in the same tick: until the next model.step
\* the field is what update_odor_patches left plus the deposits made since,
\* and each reading of a slug is that sum at the moment it sampled.
C9_StepDepositsVisibleUndiffused ==
    /\ steps > 0 =>
         \A i \in OdorTypes, c \in Cells :
            patches[i][c] = audit.snapshot[i][c] + audit.stepDep[i][c]
    /\ \A a \in Slugs : audit.stepCount[a] = 1 =>
         \A k \in SensorIds, i \in OdorTypes :
            sensed[a][k][i] =
               audit.snapshot[i][audit.sampled[a][k]] + audit.seenDep[a][k][i]

C9_Witness ==
    \E a \in Slugs, k \in SensorIds, i \in OdorTypes :
        /\ audit.stepCount[a] = 1
        /\ audit.seenDep[a][k][i] > 0
        /\ audit.snapshot[i][audit.sampled[a][k]] > 0

(***************************************************************************)
(* Claims about the forager's learning circuit and encounter cooldown.     *)
(***************************************************************************)
\* C1: in every state reached through step, calc_learning_circuit and the
\* zero_V calls, each of the six association strengths is at least its
\* current baseline, the one stored by the last baseline recomputation.
C1_AssociationAtLeastBaseline ==
    \A p \in Pathways : slug.V[p] >= slug.V0[p]

C3_CooldownCountsOnce ==
    /\ [](/\ hist.minGap >= encounter_cooldown
          /\ slug.encounter_timer \in 0 .. encounter_cooldown
          /\ hist.calls = 0 => slug.encounter_timer = 0)
    /\ [][hist'.lastCall = "step" =>
            /\ (hist'.lastCapture = "ignored") = 
                  (slug.encounter_timer > 0 /\ hist'.lastCapture # "none")
            /\ hist'.lastCapture = "counted" =>
                  /\ Counters(slug') = Counters(slug) + 1
                  /\ slug'.encounter_timer = encounter_cooldown - 1
            /\ hist'.lastCapture # "counted" =>
                  /\ slug'.hermi_counter = slug.hermi_counter
                  /\ slug'.flab_counter = slug.flab_counter
                  /\ slug'.fauxflab_counter = slug.fauxflab_counter
                  /\ slug'.R_pos_input = (8 * slug.R_pos_input) \div 10
                  /\ slug'.R_neg_input = (8 * slug.R_neg_input) \div 10
                  /\ slug'.encounter_timer =
                        IF slug.encounter_timer > 0
                        THEN slug.encounter_timer - 1 ELSE 0]_vars

C3_Witness ==
    /\ slug.hermi_counter + slug.fauxflab_counter >= 1
    /\ slug.flab_counter >= 1
    /\ hist.minGap = encounter_cooldown
    /\ hist.lastCapture = "counted"

\* C10: each of the six synaptic weights lies strictly between 0 and 1 in
\* every reachable state of a forager, from construction onwards.
C10_WeightsStrictlyInsideUnitInterval ==
    \A p \in Pathways : slug.W[p] > 0 /\ slug.W[p] < ONE

(***************************************************************************)
(* Claims about coordinates, the proboscis, biting and the motivation.     *)
(***************************************************************************)
\* the grid index of a coordinate, clamped into 0 .. n - 1
ClampedIndex(v, extent, n) ==
    LET k == (v * n) \div (extent * MILLI)      \* rounds down
    IN IF k < 0 THEN 0 ELSE IF k > n - 1 THEN n - 1 ELSE k

ClampedCell(pt) ==
    CellOf(ClampedIndex(pt[1], width, patch_width),
           ClampedIndex(pt[2], height, patch_height))

\* C11: for every world coordinate, inside the world rectangle or not, a
\* deposit adds its vector to exactly one cell, the one whose indices are the
\* coordinate's indices clamped into the grid, and changes no other cell; a
\* sample returns exactly that cell's vector and changes nothing.
C11_DepositAndSampleClamp ==
    [][/\ lastOp'[1] = "set_patch_odor" =>
            \A i \in OdorTypes, c \in Cells :
                patches'[i][c] = patches[i][c] +
                    (IF c = ClampedCell(lastOp'[2]) THEN lastOp'[3][i + 1] ELSE 0)
       /\ lastOp'[1] = "get_odor_at_position" =>
            /\ patches' = patches
            /\ ClampedCell(lastOp'[2]) \in Cells
            /\ \A i \in OdorTypes :
                lastOp'[3][i] = patches[i][ClampedCell(lastOp'[2])]]_vars

\* a deposit left of and above the world has been made and then sampled back
C11_Witness ==
    /\ lastOp[1] = "get_odor_at_position"
    /\ lastOp[2][1] < 0
    /\ lastOp[2][2] > height * MILLI
    /\ \E i \in OdorTypes : lastOp[3][i] > 0
    /\ \E i \in OdorTypes : patches[i][CellOf(0, patch_height - 1)] > 0

\* C12: after every update_proboscis the proboscis is extended exactly when
\* proboscis_phase is in 1..19, however many ticks in a row the trigger (a
\* betaine side reading above 5.5, or M above 1.3 * M0) has held; without the
\* trigger the phase is 0 and the proboscis retracted.
C12_ExtendedIffPhaseInside ==
    /\ slug.proboscis_extended <=> slug.proboscis_phase \in 1 .. 19
    /\ (hist.lastCall = "proboscis" /\ ~ProboscisTrigger(slug)) =>
          (slug.proboscis_phase = 0 /\ ~slug.proboscis_extended)

\* C13: a forager whose bite cooldown has not counted down to 0 does not bite:
\* a step entered with bite_cooldown > 0 leaves bite_counter as it was and
\* is_biting false, even with a conspecific in the bite cone and M above
\* the guarding threshold.
C13_NoBiteDuringCooldown ==
    [][slug.bite_cooldown > 0 =>
          (slug'.bite_counter = slug.bite_counter /\ ~slug'.is_biting)]_vars

Sign(v) == IF v > 0 THEN 1 ELSE IF v < 0 THEN 0 - 1 ELSE 0

\* switch * 2 * (sigmoid(3 * map) - 0.5)
TurnOfSameSign(switch, map) ==
    MulS(switch, 2 * (Sigmoid(3 * map) - ONE \div 2))

\* C14: the turn angle update_state returns is
\* app_state_switch * 2 * (sigmoid(3 * somatic_map) - 0.5): with a positive
\* switch it has the sign of the somatic map, with a negative switch the
\* opposite sign.
C14_TurnHasSignOfSomaticMap ==
    (hist.lastCall = "step" /\ slug.error = "none") =>
        /\ slug.turn_angle = TurnOfSameSign(slug.app_state_switch, slug.somatic_map)
        /\ Sign(slug.turn_angle)
              = Sign(slug.app_state_switch) * Sign(slug.somatic_map)

SymmetricSensing(s) ==
    /\ s.sns_hermi_left = s.sns_hermi_right
    /\ s.sns_flab_left = s.sns_flab_right
    /\ s.sns_pleur_left = s.sns_pleur_right
    /\ s.sns_pain_left = s.sns_pain_right

\* C15: a step that senses the same value on the left and on the right in
\* every channel (hermi, flab, conspecific odor, pain) ends with
\* somatic_map = 0 and a turn angle of 0, whatever the learning, motivation
\* and satiation state.
C15_SymmetricSensingNoTurn ==
    (hist.lastCall = "step" /\ SymmetricSensing(slug)) =>
        (slug.error = "none" /\ slug.somatic_map = 0 /\ slug.turn_angle = 0)

\* C16: after every step made with the satiation pin active the forager's
\* satiation is the pinned value, whatever its nutrition and its captures;
\* a step made with the pin released leaves the satiation computed from the
\* nutrition.
C16_PinnedSatiation ==
    hist.lastCall = "step" =>
        slug.satiation = IF config.fix_satiation_override
                         THEN config.fix_satiation_value
                         ELSE SatiationOf(slug.nutrition)

\* a step with the pin released, after steps with the pin active and a
\* capture, has left the satiation of the nutrition, not the pinned value
C16_Witness ==
    /\ hist.lastCall = "step"
    /\ hist.pinnedTicks >= 1
    /\ ~config.fix_satiation_override
    /\ slug.nutrition > ONE \div 2
    /\ slug.satiation = SatiationOf(slug.nutrition)
    /\ slug.satiation # config.fix_satiation_value

\* C17: a forager's satiation is strictly between 0 and 1 in every reachable
\* state, for every nutrition and every configuration of the model, the
\* satiation override with its default value included.
C17_SatiationStrictlyInside ==
    slug.satiation > 0 /\ slug.satiation < ONE

\* C17 as the code has it: satiation is above 0 and at most 1; a step with
\* the override off leaves it strictly below 1 (for a nutrition below 9.5,
\* where the double has not yet rounded the curve to 1.0), and it is 1 only
\* after a step with the override on, as the pinned value.
C17_SatiationInsideUnlessPinned ==
    /\ slug.satiation > 0
    /\ slug.satiation <= ONE
    /\ (hist.lastCall = "step" /\ ~config.fix_satiation_override
          /\ 4 * slug.nutrition - 2 * ONE < 36 * ONE) => slug.satiation < ONE
    /\ hist.pinnedTicks = 0 => slug.satiation < ONE

\* a forager that has fed three times without the override is nearly, and
\* not fully, satiated
C17_Witness ==
    /\ hist.lastCall = "step"
    /\ hist.pinnedTicks = 0
    /\ ~config.fix_satiation_override
    /\ slug.nutrition > ONE + (3 * ONE) \div 10
    /\ slug.satiation > (9 * ONE) \div 10
    /\ slug.satiation < ONE

\* C19: in every reachable state of a forager M0 is a quarter of the
\* forager's current size, also after the size has grown through captures,
\* and the size never exceeds max_slug_size.
C19_BaselineIsQuarterOfSize ==
    /\ 40 * slug.M0 = size[TheSlug] * ONE
    /\ size[TheSlug] <= max_slug_size

InvalidParams(params) ==
    \/ params.width <= 0
    \/ params.height <= 0
    \/ params.patch_width <= 0
    \/ params.patch_height <= 0
    \/ params.hermi_population < 0

\* C18: configuration errors are rejected: a construction with a dimension
\* of the world or of the patch grid that is not positive, or with a
\* negative population, raises and yields no model, and a deposit of a
\* vector whose length is not the channel count raises and leaves the field
\* as it was.
C18_ConfigurationErrorsRejected ==
    [][ /\ (lastOp'[1] = "construct" /\ InvalidParams(lastOp'[2])) =>
              (lastOp'[3] # "ok" /\ config' = config)
        /\ (lastOp'[1] = "set_patch_odor" /\ Len(lastOp'[3]) # num_odor_types) =>
              (lastOp'[4] # "ok" /\ patches' = patches) ]_vars

AllFlagsOff ==
    /\ ~config.biting
    /\ ~config.clustering
    /\ ~config.odor_null
    /\ ~config.fix_satiation_override
    /\ ~immobilize

\* C20: a configuration flag governs whether a counted fauxflab capture adds
\* to the positive reward input: in a model with the flag off, and so in a
\* model with every flag off, the capture leaves R_pos_input with its decay
\* by 0.8 and nothing added.
C20_FauxflabRewardGovernedByFlag ==
    [][(AllFlagsOff /\ slug'.fauxflab_counter = slug.fauxflab_counter + 1) =>
          slug'.R_pos_input = (8 * slug.R_pos_input) \div 10]_vars

(***************************************************************************)
(* Claims about the run of the model: immobilize, the prey populations,    *)
(* the tick counter, captures.                                             *)
(***************************************************************************)
\* C22: with immobilize on, no step changes the position of a forager, while
\* its heading and its size may change.
C22_ImmobilizedForagersStay ==
    [][immobilize => \A a \in Slugs : pos'[a] = pos[a]]_vars

C22_Witness ==
    /\ immobilize
    /\ pc = "idle"
    /\ steps = 2
    /\ \E a \in Slugs : pos[a] \in SlugStart /\ angle[a] # 0 /\ size[a] \notin StartSizes

\* the prey kinds, and the number of prey of a kind that _create_agents made
PreyKinds == {AgentKinds[a] : a \in Prey}

PopulationOf(kind) == Cardinality({a \in Prey : AgentKinds[a] = kind})

\* the prey of a kind that this model.step has stepped or has still to step
ScheduledOfKind(kind) ==
    Cardinality({a \in Prey : /\ AgentKinds[a] = kind
                              /\ \/ audit.stepCount[a] = 1
                                 \/ \E k \in 1 .. Len(queue) : queue[k] = a})

InSpace(p) ==
    /\ 0 <= p[1] /\ p[1] < width * MILLI
    /\ 0 <= p[2] /\ p[2] < height * MILLI

\* C23: every prey has a place in the space at all times, every model.step
\* schedules as many prey of each type as the model was made with, and a
\* captured prey is at a respawn place right after its capture.
C23_PreyRelocatedNeverDestroyed ==
    /\ [](\A a \in Prey : InSpace(pos[a]))
    /\ [](pc = "agents" =>
            \A kind \in PreyKinds : ScheduledOfKind(kind) = PopulationOf(kind))
    /\ [][\A a \in Slugs :
            (audit'.stepCount[a] = audit.stepCount[a] + 1 /\ audit'.captured[a] # 0)
               => /\ pos'[audit'.captured[a]] \in RespawnPlaces
                  /\ InSpace(pos'[audit'.captured[a]])]_vars

C23_Witness ==
    /\ pc = "idle"
    /\ steps = 2
    /\ \E a \in Slugs : /\ audit.captured[a] # 0
                        /\ audit.stepCount[audit.captured[a]] = 1
                        /\ InSpace(pos[audit.captured[a]])

\* C24: model.ticks is 0 after construction, every completed model.step
\* raises it by exactly 1 and nothing else changes it, so between steps it is
\* the number of model.step calls made.
C24_TicksCountCompletedSteps ==
    /\ ticks = 0
    /\ [][ticks' = IF pc = "agents" /\ pc' = "idle" THEN ticks + 1 ELSE ticks]_vars
    /\ [](pc = "idle" => ticks = steps)

C24_Witness ==
    /\ pc = "idle"
    /\ ticks = 2
    /\ \A a \in Agents : audit.stepCount[a] = 1

\* the capture test of check_encounters, and the squared distance it compares
Capturable(a, k) ==
    /\ k \in Prey
    /\ InCone(pos[a][1], pos[a][2], angle[a], pos[k][1], pos[k][2], 40 * size[a])

Dist2(a, k) ==
    (pos[k][1] - pos[a][1]) * (pos[k][1] - pos[a][1])
    + (pos[k][2] - pos[a][2]) * (pos[k][2] - pos[a][2])

\* C28 as claimed: a forager's step captures a prey when one passes the
\* capture test, the captured prey passes it and no prey that passes it is
\* nearer, and no other prey is respawned by that step.
C28_NearestPreyCaptured ==
    [][\A a \in Slugs :
         audit'.stepCount[a] = audit.stepCount[a] + 1 =>
            \E caught \in {audit'.captured[a]} :
               /\ (\E k \in Prey : Capturable(a, k)) => caught # 0
               /\ caught # 0 =>
                    /\ Capturable(a, caught)
                    /\ \A k \in Prey : Capturable(a, k) => Dist2(a, caught) <= Dist2(a, k)
               /\ \A k \in Prey \ {caught} : pos'[k] = pos[k]]_vars

NoOdorNoTrace(s) ==
    /\ s.sns_hermi = 0 /\ s.sns_flab = 0
    /\ s.CS1 = 0 /\ s.CS2 = 0

\* C29: with no odor sensed and both CS traces 0, a calc_learning_circuit call
\* leaves every association strength at max(V - 0.08, V0), V0 being the
\* baseline the call starts with: a V at least 0.08 above that baseline loses
\* exactly 0.08, a V less than 0.08 above it lands on it, a V on it stays, a
\* V above it ends strictly lower, and no V ends below it.
C29_ForgettingDownToBaseline ==
    [][(hist'.calls = hist.calls + 1 /\ hist'.lastCall = "calc" /\ NoOdorNoTrace(slug)) =>
         \A p \in Pathways :
            /\ slug'.V[p] >= slug.V0[p]
            /\ slug.V[p] >= slug.V0[p] + 800 => slug'.V[p] = slug.V[p] - 800
            /\ (slug.V[p] >= slug.V0[p] /\ slug.V[p] < slug.V0[p] + 800)
                  => slug'.V[p] = slug.V0[p]
            /\ slug.V[p] > slug.V0[p] => slug'.V[p] < slug.V[p]]_vars

C29_Witness ==
    /\ hist.lastCall = "calc"
    /\ hist.calls = MaxForgetCalls - 1
    /\ slug.saturated["h_rp"] = 1
    /\ slug.V["h_rp"] = slug.V0["h_rp"]
    /\ slug.V0["h_rp"] > 0
    /\ slug.V["f_rn"] = 0

\* update_state in the order the claim states: the learning-circuit update
\* first, then the motivation (incentive, somatic map, appetitive state and
\* turn angle) computed from the strengths that update has left
update_state_learning_first(s, encounter) ==
    LET s1 == Incentive(Satiate(PainState(calc_learning_circuit(
                  Feed(EncounterLearning(calc_SH(s), encounter), encounter)))))
    IN  IF SomaticOverflow(s1)
        THEN [s1 EXCEPT !.error = "OverflowError"]
        ELSE TimerTick(TurnAngle(AppState(SomaticMap(s1))))

TurnLearningFirst(s, scene) ==
    update_state_learning_first(
        check_slug_interactions(update_sensors(s, scene), scene.conspecific),
        scene.encounter).turn_angle

\* C27 as claimed: the turn angle a step produces is the one computed from
\* the association strengths as that step's learning update leaves them.
C27_TurnUsesThisTicksLearning ==
    [][\A scene \in FaintScenes :
         (hist'.ticks = hist.ticks + 1 /\ slug' = slug_step(slug, scene))
            => slug'.turn_angle = TurnLearningFirst(slug, scene)]_vars

(***************************************************************************)
(* Claims about sampling, determinism and bite accounting.                 *)
(***************************************************************************)
\* the arrays that get_odor_at_position returned
Sampled == {k \in 1 .. Len(held) : held[k].by = "get_odor_at_position"}

\* C26: get_odor_at_position is a pure read that returns a snapshot.  An
\* array it returned keeps the values it was returned with until its holder
\* assigns to it, whatever happens to the field; two arrays returned for the
\* same point with no change of the field in between are equal; the call
\* itself leaves the field as it was; and an assignment to a returned array
\* leaves the field as it was.
C26_SamplingIsPureSnapshot ==
    /\ [](\A k \in Sampled :
            ~held[k].written => ArrayRead(patches, held[k].arr) = held[k].seen)
    /\ [](\A k \in Sampled, m \in Sampled :
            (held[k].pt = held[m].pt /\ held[k].fresh /\ held[m].fresh
                /\ ~held[k].written /\ ~held[m].written)
              => ArrayRead(patches, held[k].arr) = ArrayRead(patches, held[m].arr))
    /\ [][lastOp'[1] = "get_odor_at_position" => patches' = patches]_vars
    /\ [][(lastOp'[1] = "assign" /\ lastOp'[2] \in Sampled) => patches' = patches]_vars

\* a sampled array that was returned before the field changed at its cell,
\* next to one returned after it, and a third state where the holder has
\* overwritten a sample
C26_Witness ==
    /\ Len(held) = 2
    /\ Sampled = {1, 2}
    /\ held[1].pt = held[2].pt
    /\ ~held[1].fresh
    /\ held[1].seen # held[2].seen
    /\ held[1].written

\* what the claim compares between two runs: the forager's position,
\* heading, size and internal state, and the scheduler's order
ForagerOf(m) == <<m.x, m.y, m.angle, m.size, m.slug, m.order>>

\* C21 as claimed: two models of the same configuration that were given
\* the same seed and have made the same number of ticks are in the same
\* state.
C21_SameSeedSameTrajectory ==
    (runs.built /\ runs.seeded /\ runs.m[1].ticks = runs.m[2].ticks)
        => ForagerOf(runs.m[1]) = ForagerOf(runs.m[2])

RECURSIVE SumOver(_, _)
SumOver(f, S) ==
    IF S = {} THEN 0
    ELSE LET a == CHOOSE a \in S : TRUE IN f[a] + SumOver(f, S \ {a})

BitesGiven(c) == SumOver([a \in ColonySlugs |-> c[a].bite_counter], ColonySlugs)
BitesTaken(c) == SumOver([a \in ColonySlugs |-> c[a].bitten_counter], ColonySlugs)

\* the foragers whose counter a call has changed
Biters(c1, c2) == {a \in ColonySlugs : c2[a].bite_counter # c1[a].bite_counter}
Bitten(c1, c2) == {a \in ColonySlugs : c2[a].bitten_counter # c1[a].bitten_counter}

\* C30: bite accounting is conserved.  The bite counters and the bitten
\* counters of all foragers always have the same sum; one
\* check_slug_interactions call raises either nothing or the caller's
\* bite_counter and one other forager's bitten counter, each by 1; and in a
\* model with biting off the call leaves every counter and every
\* nociceptor value as it was.
C30_BiteAccountingConserved ==
    /\ [](BitesGiven(colony.slugs) = BitesTaken(colony.slugs))
    /\ [][colony'.steps = colony.steps + 1 =>
            LET before == colony.slugs
                after == colony'.met
                a == colony'.by
            IN /\ Biters(before, after) \subseteq {a}
               /\ Cardinality(Bitten(before, after)) = Cardinality(Biters(before, after))
               /\ a \notin Bitten(before, after)
               /\ \A b \in Biters(before, after) :
                    after[b].bite_counter = before[b].bite_counter + 1
               /\ \A b \in Bitten(before, after) :
                    after[b].bitten_counter = before[b].bitten_counter + 1
               /\ ~config.biting =>
                    \A b \in ColonySlugs :
                        /\ after[b].bite_counter = before[b].bite_counter
                        /\ after[b].bitten_counter = before[b].bitten_counter
                        /\ after[b].painval = before[b].painval]_vars

\* a forager has bitten twice, two different foragers have been bitten, and
\* the last call was a bite with two foragers in reach
C30_Witness ==
    /\ config.biting
    /\ \E a \in ColonySlugs : colony.slugs[a].bite_counter = 2
    /\ Cardinality({b \in ColonySlugs : colony.slugs[b].bitten_counter = 1}) = 2
    /\ colony.met[colony.by].is_biting

====
